---- MODULE Spec2Model ----
(***************************************************************************)
(* NavMarg travel agent: the slot-filling dialogue of app.py and the       *)
(* budget-checked plan generation of llm_engine.py.                        *)
(*                                                                         *)
(* Python strings are sequences of one-character strings, so that strip,   *)
(* lower, substring search, int() and date.fromisoformat() are computed    *)
(* rather than assumed.                                                    *)
(***************************************************************************)
EXTENDS Integers, Sequences, FiniteSets, TLC

(***************************************************************************)
(* str helpers                                                             *)
(***************************************************************************)
Whitespace == {" ", "\t", "\n"}

Digits == {"0", "1", "2", "3", "4", "5", "6", "7", "8", "9"}

DigitVal(c) ==
    CASE c = "0" -> 0 [] c = "1" -> 1 [] c = "2" -> 2 [] c = "3" -> 3
      [] c = "4" -> 4 [] c = "5" -> 5 [] c = "6" -> 6 [] c = "7" -> 7
      [] c = "8" -> 8 [] c = "9" -> 9

SetMin(S) == CHOOSE x \in S : \A y \in S : x <= y

SetMax(S) == CHOOSE x \in S : \A y \in S : x >= y

\* str.strip()
Strip(s) ==
    LET keep == {i \in 1..Len(s) : s[i] \notin Whitespace}
    IN  IF keep = {} THEN <<>> ELSE SubSeq(s, SetMin(keep), SetMax(keep))

LowerChar(c) ==
    CASE c = "A" -> "a" [] c = "B" -> "b" [] c = "C" -> "c" [] c = "D" -> "d"
      [] c = "E" -> "e" [] c = "F" -> "f" [] c = "G" -> "g" [] c = "H" -> "h"
      [] c = "I" -> "i" [] c = "J" -> "j" [] c = "K" -> "k" [] c = "L" -> "l"
      [] c = "M" -> "m" [] c = "N" -> "n" [] c = "O" -> "o" [] c = "P" -> "p"
      [] c = "Q" -> "q" [] c = "R" -> "r" [] c = "S" -> "s" [] c = "T" -> "t"
      [] c = "U" -> "u" [] c = "V" -> "v" [] c = "W" -> "w" [] c = "X" -> "x"
      [] c = "Y" -> "y" [] c = "Z" -> "z" [] OTHER -> c

\* str.lower()
Lower(s) == [i \in 1..Len(s) |-> LowerChar(s[i])]

\* fragment in s
Contains(s, fragment) ==
    \E i \in 1..(Len(s) - Len(fragment) + 1) :
        SubSeq(s, i, i + Len(fragment) - 1) = fragment

\* s.replace(c, "")
RemoveChar(s, c) == SelectSeq(s, LAMBDA x : x # c)

RECURSIVE DigitsValue(_)
DigitsValue(s) ==
    IF s = <<>> THEN 0
    ELSE 10 * DigitsValue(SubSeq(s, 1, Len(s) - 1)) + DigitVal(s[Len(s)])

AllDigits(s) == s # <<>> /\ \A i \in 1..Len(s) : s[i] \in Digits

\* int(str): surrounding whitespace, one optional sign, then decimal digits.
\* The result is a record: ok = FALSE stands for ValueError.
IntOfStr(s) ==
    LET t    == Strip(s)
        sign == t # <<>> /\ t[1] \in {"+", "-"}
        body == IF sign THEN Tail(t) ELSE t
    IN  IF AllDigits(body)
        THEN [ok |-> TRUE,
              v  |-> IF sign /\ t[1] = "-" THEN 0 - DigitsValue(body)
                     ELSE DigitsValue(body)]
        ELSE [ok |-> FALSE, v |-> 0]

(***************************************************************************)
(* datetime.date: proleptic Gregorian ordinals, as date comparison does    *)
(***************************************************************************)
IsLeap(y) == (y % 4 = 0) /\ ((y % 100 # 0) \/ (y % 400 = 0))

DaysInMonth(y, m) ==
    CASE m \in {1, 3, 5, 7, 8, 10, 12} -> 31
      [] m \in {4, 6, 9, 11} -> 30
      [] OTHER -> IF IsLeap(y) THEN 29 ELSE 28

RECURSIVE DaysBeforeMonth(_, _)
DaysBeforeMonth(y, m) ==
    IF m = 1 THEN 0 ELSE DaysBeforeMonth(y, m - 1) + DaysInMonth(y, m - 1)

DaysBeforeYear(y) ==
    (y - 1) * 365 + ((y - 1) \div 4) - ((y - 1) \div 100) + ((y - 1) \div 400)

\* A variant of Ordinal that counts the days within the year only: C11 tells
\* it from Ordinal.
Ordinal_DayOfYear(y, m, d) == DaysBeforeMonth(y, m) + d

Ordinal(y, m, d) == DaysBeforeYear(y) + DaysBeforeMonth(y, m) + d

\* date.fromisoformat(s): YYYY-MM-DD only; ok = FALSE stands for ValueError.
DateFromIso(s) ==
    LET shaped == /\ Len(s) = 10
                  /\ s[5] = "-" /\ s[8] = "-"
                  /\ \A i \in {1, 2, 3, 4, 6, 7, 9, 10} : s[i] \in Digits
        y == DigitsValue(SubSeq(s, 1, 4))
        m == DigitsValue(SubSeq(s, 6, 7))
        d == DigitsValue(SubSeq(s, 9, 10))
    IN  IF shaped /\ y >= 1 /\ m \in 1..12 /\ d >= 1 /\ d <= DaysInMonth(y, m)
        THEN [ok |-> TRUE, ord |-> Ordinal(y, m, d)]
        ELSE [ok |-> FALSE, ord |-> 0]

(***************************************************************************)
(* JSON values the models return.  A number is held in half units (h = 2   *)
(* times its value) so that both integers and non-integers such as         *)
(* 10000.5 exist and int() truncates; a dict is a function whose DOMAIN    *)
(* is its key set.                                                         *)
(***************************************************************************)
JInt(n) == [k |-> "num", h |-> 2 * n, s |-> <<>>]

JHalf(n) == [k |-> "num", h |-> 2 * n + 1, s |-> <<>>]

JStr(str) == [k |-> "str", h |-> 0, s |-> str]

JNull == [k |-> "null", h |-> 0, s |-> <<>>]

\* int(value) on a parsed JSON value: floats truncate toward zero, strings
\* parse, None raises TypeError (ok = FALSE stands for the exception).
PyInt(value) ==
    CASE value.k = "num" ->
            [ok |-> TRUE,
             v  |-> IF value.h >= 0 THEN value.h \div 2
                    ELSE 0 - ((0 - value.h) \div 2)]
      [] value.k = "str" -> IntOfStr(value.s)
      [] OTHER -> [ok |-> FALSE, v |-> 0]

\* dict.get(key, default)
Get(d, key, default) == IF key \in DOMAIN d THEN d[key] ELSE default

(***************************************************************************)
(* A model response is a sequence of tokens: whitespace, a fence           *)
(* "```json", a fence "```", a run of prose, the text of one JSON value    *)
(* (payload), or one of the line-break tags "<br>", "<br/>", "<br />".     *)
(* json.loads accepts a text exactly when it is one payload token.         *)
(***************************************************************************)
NoValue == [nothing |-> TRUE]

Space == [t |-> "space", v |-> NoValue]

Br == [t |-> "br", v |-> NoValue]

BrSlash == [t |-> "br/", v |-> NoValue]

BrSpaceSlash == [t |-> "br /", v |-> NoValue]

\* str.strip() of a response text
StripText(text) ==
    LET keep == {i \in 1..Len(text) : text[i].t # "space"}
    IN  IF keep = {} THEN <<>> ELSE SubSeq(text, SetMin(keep), SetMax(keep))

FenceJson == [t |-> "fence_json", v |-> NoValue]

Fence == [t |-> "fence", v |-> NoValue]

Prose == [t |-> "prose", v |-> NoValue]

Payload(value) == [t |-> "payload", v |-> value]

\* json.loads(text): surrounding whitespace is allowed
JsonLoads(text) ==
    IF Len(StripText(text)) = 1 /\ StripText(text)[1].t = "payload"
    THEN [ok |-> TRUE, v |-> StripText(text)[1].v]
    ELSE [ok |-> FALSE, v |-> NoValue]

\* text.split(marker, 1)[1] for the first token whose kind is in kinds
AfterFirst(text, kinds) ==
    LET at == SetMin({i \in 1..Len(text) : text[i].t \in kinds})
    IN  SubSeq(text, at + 1, Len(text))

\* text.split("```", 1)[0]: "```" also matches the start of "```json"
BeforeFirstFence(text) ==
    LET at == {i \in 1..Len(text) : text[i].t \in {"fence", "fence_json"}}
    IN  IF at = {} THEN text ELSE SubSeq(text, 1, SetMin(at) - 1)

\* _extract_json(text): ok = FALSE stands for json.JSONDecodeError
_extract_json(text) ==
    LET raw     == StripText(text)
        direct  == JsonLoads(raw)
        hasJson == \E i \in 1..Len(raw) : raw[i].t = "fence_json"
        hasAny  == \E i \in 1..Len(raw) : raw[i].t \in {"fence", "fence_json"}
    IN  IF direct.ok THEN direct
        ELSE IF hasJson
             THEN JsonLoads(StripText(BeforeFirstFence(AfterFirst(raw, {"fence_json"}))))
        ELSE IF hasAny
             THEN JsonLoads(StripText(BeforeFirstFence(AfterFirst(raw, {"fence"}))))
        ELSE direct

\* str.upper()
UpperChar(c) ==
    CASE c = "a" -> "A" [] c = "b" -> "B" [] c = "c" -> "C" [] c = "d" -> "D"
      [] c = "e" -> "E" [] c = "f" -> "F" [] c = "g" -> "G" [] c = "h" -> "H"
      [] c = "i" -> "I" [] c = "j" -> "J" [] c = "k" -> "K" [] c = "l" -> "L"
      [] c = "m" -> "M" [] c = "n" -> "N" [] c = "o" -> "O" [] c = "p" -> "P"
      [] c = "q" -> "Q" [] c = "r" -> "R" [] c = "s" -> "S" [] c = "t" -> "T"
      [] c = "u" -> "U" [] c = "v" -> "V" [] c = "w" -> "W" [] c = "x" -> "X"
      [] c = "y" -> "Y" [] c = "z" -> "Z" [] OTHER -> c

\* A variant of Upper that leaves the text as it is: C16 tells it from Upper.
Upper_AsIs(s) == s

Upper(s) == [i \in 1..Len(s) |-> UpperChar(s[i])]

\* A JSON array (any parsed value that is not a dict).
JsonList == [json_list |-> TRUE]

IsDict(value) == "json_list" \notin DOMAIN value

(***************************************************************************)
(* Program constants.  A message literal that the code only passes along   *)
(* is held as a single chunk; texts the code inspects are held character   *)
(* by character.                                                           *)
(***************************************************************************)
QUESTIONS ==
    << [slot |-> "origin",      question |-> <<"What is your origin city?">>],
       [slot |-> "destination", question |-> <<"What is your destination city?">>],
       [slot |-> "start_date",  question |-> <<"What is your trip start date? (YYYY-MM-DD)">>],
       [slot |-> "end_date",    question |-> <<"What is your trip end date? (YYYY-MM-DD)">>],
       [slot |-> "travel_type", question |-> <<"What is your travel type? (Solo/Couple/Family/Friends/Business Trip/Group Tour)">>],
       [slot |-> "adults",      question |-> <<"How many adults (13+) are traveling?">>],
       [slot |-> "children",    question |-> <<"How many children (0-12) are traveling?">>],
       [slot |-> "budget",      question |-> <<"What is your total budget in INR?">>],
       [slot |-> "budget_tier", question |-> <<"What budget tier do you prefer? (Budget/Mid-range/Luxury etc.)">>],
       [slot |-> "interests",   question |-> <<"What are your main interests? (comma separated)">>],
       [slot |-> "pace",        question |-> <<"What travel pace do you prefer? (Relaxed/Balanced/Active)">>],
       [slot |-> "experience",  question |-> <<"What experience style do you want? (Must-see/Hidden Gems/Mix/Local/Instagrammable)">>] >>

SlotNames == {QUESTIONS[i].slot : i \in 1..Len(QUESTIONS)}

greetings ==
    {<<"h", "i">>,
     <<"h", "e", "l", "l", "o">>,
     <<"h", "e", "y">>,
     <<"h", "i", "i">>,
     <<"y", "o">>,
     <<"h", "o", "l", "a">>,
     <<"g", "o", "o", "d", " ", "m", "o", "r", "n", "i", "n", "g">>,
     <<"g", "o", "o", "d", " ", "e", "v", "e", "n", "i", "n", "g">>}

banned_fragments ==
    {<<"i", "g", "n", "o", "r", "e", " ", "p", "r", "e", "v", "i", "o", "u", "s">>,
     <<"r", "e", "v", "e", "a", "l", " ", "s", "y", "s", "t", "e", "m", " ", "p", "r", "o", "m", "p", "t">>,
     <<"h", "a", "c", "k">>,
     <<"e", "x", "p", "l", "o", "i", "t">>}

RestartTokens ==
    {<<"r", "e", "s", "t", "a", "r", "t">>,
     <<"s", "t", "a", "r", "t", " ", "o", "v", "e", "r">>,
     <<"n", "e", "w", " ", "t", "r", "i", "p">>}

AffirmativeTokens ==
    {<<"y", "e", "s">>,
     <<"y">>,
     <<"s", "a", "t", "i", "s", "f", "i", "e", "d">>,
     <<"d", "o", "n", "e">>}

NegativeTokens ==
    {<<"n", "o">>,
     <<"n">>,
     <<"n", "o", "t", " ", "s", "a", "t", "i", "s", "f", "i", "e", "d">>}

DecAllow == <<"A", "L", "L", "O", "W">>

DecGreeting == <<"G", "R", "E", "E", "T", "I", "N", "G">>

DecOfftopic == <<"O", "F", "F", "T", "O", "P", "I", "C">>

DecUnsafe == <<"U", "N", "S", "A", "F", "E">>

(***************************************************************************)
(* llm_engine.py                                                           *)
(***************************************************************************)
\* A model reply: fail stands for any exception of the provider call.
\* _call_llm returns the stripped content or raises (ok = FALSE).
_call_llm(response) ==
    IF response.fail \/ StripText(response.text) = <<>>
    THEN [ok |-> FALSE, text |-> <<>>]
    ELSE [ok |-> TRUE, text |-> StripText(response.text)]

GuardrailDict(decision, reason, message) ==
    [decision |-> JStr(decision), reason |-> JStr(reason),
     assistant_message |-> JStr(message)]

\* A variant of run_guardrail that compares the trimmed text with the
\* greeting tokens without lower-casing it: C7 tells it from run_guardrail.
run_guardrail_CaseSensitive(user_text, api_key, response) ==
    LET stripped == Strip(user_text)
        lower    == Lower(stripped)
        raw      == _call_llm(response)
        parsed   == _extract_json(raw.text)
        withDefaults ==
            [key \in DOMAIN parsed.v \cup {"assistant_message", "reason"} |->
                IF key \in DOMAIN parsed.v THEN parsed.v[key] ELSE JStr(<<>>)]
        Raise(called) == [raised |-> TRUE, called |-> called, parsed |-> NoValue]
    IN  IF stripped = <<>>
        THEN [raised |-> FALSE, called |-> FALSE,
              parsed |-> GuardrailDict(DecOfftopic, <<"Empty message">>, <<>>)]
        ELSE IF stripped \in greetings
        THEN [raised |-> FALSE, called |-> FALSE,
              parsed |-> GuardrailDict(DecGreeting, <<"Greeting">>, <<>>)]
        ELSE IF \E fragment \in banned_fragments : Contains(lower, fragment)
        THEN [raised |-> FALSE, called |-> FALSE,
              parsed |-> GuardrailDict(DecUnsafe, <<"Prompt injection or unsafe intent">>, <<>>)]
        ELSE IF ~api_key THEN Raise(FALSE)
        ELSE IF ~raw.ok THEN Raise(TRUE)
        ELSE IF ~parsed.ok THEN Raise(TRUE)
        ELSE IF ~IsDict(parsed.v) THEN Raise(TRUE)
        ELSE IF "decision" \notin DOMAIN parsed.v THEN Raise(TRUE)
        ELSE [raised |-> FALSE, called |-> TRUE, parsed |-> withDefaults]

\* run_guardrail(user_text, expected_slot): api_key tells whether
\* GROQ_API_KEY is set, response is what the classifier model would reply.
\* raised stands for any exception leaving the function, called tells whether
\* the model call was issued.
run_guardrail(user_text, api_key, response) ==
    LET stripped == Strip(user_text)
        lower    == Lower(stripped)
        raw      == _call_llm(response)
        parsed   == _extract_json(raw.text)
        withDefaults ==
            [key \in DOMAIN parsed.v \cup {"assistant_message", "reason"} |->
                IF key \in DOMAIN parsed.v THEN parsed.v[key] ELSE JStr(<<>>)]
        Raise(called) == [raised |-> TRUE, called |-> called, parsed |-> NoValue]
    IN  IF stripped = <<>>
        THEN [raised |-> FALSE, called |-> FALSE,
              parsed |-> GuardrailDict(DecOfftopic, <<"Empty message">>,
                  <<"Please share a valid reply so I can continue your trip planning.">>)]
        ELSE IF lower \in greetings
        THEN [raised |-> FALSE, called |-> FALSE,
              parsed |-> GuardrailDict(DecGreeting, <<"Greeting">>, <<>>)]
        ELSE IF \E fragment \in banned_fragments : Contains(lower, fragment)
        THEN [raised |-> FALSE, called |-> FALSE,
              parsed |-> GuardrailDict(DecUnsafe, <<"Prompt injection or unsafe intent">>,
                  <<"I can only help with travel planning. Please share trip-related details.">>)]
        ELSE IF ~api_key THEN Raise(FALSE)
        ELSE IF ~raw.ok THEN Raise(TRUE)
        ELSE IF ~parsed.ok THEN Raise(TRUE)
        ELSE IF ~IsDict(parsed.v) THEN Raise(TRUE)
        ELSE IF "decision" \notin DOMAIN parsed.v THEN Raise(TRUE)
        ELSE [raised |-> FALSE, called |-> TRUE, parsed |-> withDefaults]

\* A variant of refine_user_answer that returns an empty or non-string
\* normalized value as the empty text: C19 tells it from refine_user_answer.
refine_user_answer_KeepsBlank(user_text, api_key, response) ==
    LET raw    == _call_llm(response)
        parsed == _extract_json(raw.text)
        value  == Get(parsed.v, "normalized_value", JStr(<<>>))
        Raise(called) == [raised |-> TRUE, called |-> called, value |-> <<>>]
    IN  IF ~api_key THEN Raise(FALSE)
        ELSE IF ~raw.ok THEN Raise(TRUE)
        ELSE IF ~parsed.ok THEN Raise(TRUE)
        ELSE IF ~IsDict(parsed.v) THEN Raise(TRUE)
        ELSE IF value.k # "str" \/ Strip(value.s) = <<>>
        THEN [raised |-> FALSE, called |-> TRUE, value |-> <<>>]
        ELSE [raised |-> FALSE, called |-> TRUE, value |-> Strip(value.s)]

\* refine_user_answer(slot_name, user_text)
refine_user_answer(user_text, api_key, response) ==
    LET raw    == _call_llm(response)
        parsed == _extract_json(raw.text)
        value  == Get(parsed.v, "normalized_value", JStr(<<>>))
        Raise(called) == [raised |-> TRUE, called |-> called, value |-> <<>>]
    IN  IF ~api_key THEN Raise(FALSE)
        ELSE IF ~raw.ok THEN Raise(TRUE)
        ELSE IF ~parsed.ok THEN Raise(TRUE)
        ELSE IF ~IsDict(parsed.v) THEN Raise(TRUE)
        ELSE IF value.k # "str" \/ Strip(value.s) = <<>>
        THEN [raised |-> FALSE, called |-> TRUE, value |-> Strip(user_text)]
        ELSE [raised |-> FALSE, called |-> TRUE, value |-> Strip(value.s)]

(***************************************************************************)
(* app.py: validation                                                      *)
(***************************************************************************)
\* A variant of _parse_int that reads any text as a number: C13 tells it
\* from _parse_int.
_parse_int_Lenient(value) ==
    LET number == IntOfStr(Strip(RemoveChar(value, ",")))
    IN  [ok |-> TRUE, v |-> IF number.ok THEN number.v ELSE 1000]

\* _parse_int(value): int(value.replace(",", "").strip())
_parse_int(value) == IntOfStr(Strip(RemoveChar(value, ",")))

MinBudget == 1000

\* validate_slot(slot, value): slots is st.session_state.slots and today is
\* date.today() as an ordinal.  The result is (is_valid, error_message).
validate_slot(slot, value, slots, today) ==
    LET parsed     == DateFromIso(Strip(value))
        start_date == Get(slots, "start_date", <<>>)
        start      == DateFromIso(start_date)
        parsed_int == _parse_int(value)
        Reject(message) == [ok |-> FALSE, message |-> message]
    IN  IF Strip(value) = <<>>
        THEN Reject(<<"This answer is empty. Please provide a valid value.">>)
        ELSE IF slot \in {"start_date", "end_date"} /\ ~parsed.ok
        THEN Reject(<<"Invalid date format. Please use YYYY-MM-DD.">>)
        ELSE IF slot \in {"start_date", "end_date"} /\ parsed.ord < today
        THEN Reject(<<"Date cannot be in the past. Please use YYYY-MM-DD.">>)
        ELSE IF slot = "end_date" /\ start_date # <<>> /\ ~start.ok
        THEN Reject(<<"Invalid end date. Please use YYYY-MM-DD.">>)
        ELSE IF slot = "end_date" /\ start_date # <<>> /\ parsed.ord < start.ord
        THEN Reject(<<"End date cannot be before start date.">>)
        ELSE IF slot \in {"adults", "children", "budget"} /\ ~parsed_int.ok
        THEN Reject(<<"Please provide a valid number for ", slot, ".">>)
        ELSE IF slot = "adults" /\ parsed_int.v < 1
        THEN Reject(<<"At least 1 adult is required.">>)
        ELSE IF slot = "children" /\ parsed_int.v < 0
        THEN Reject(<<"Children cannot be negative.">>)
        ELSE IF slot = "budget" /\ parsed_int.v < MinBudget
        THEN Reject(<<"Budget should be at least 1000 INR.">>)
        ELSE [ok |-> TRUE, message |-> <<>>]

(***************************************************************************)
(* llm_engine.py: generate_plan                                            *)
(***************************************************************************)
\* _sum_day_costs(days): ok = FALSE stands for the ValueError it raises
RECURSIVE _sum_day_costs(_)
_sum_day_costs(days) ==
    IF days = <<>> THEN [ok |-> TRUE, v |-> 0]
    ELSE LET value == PyInt(Get(days[1], "estimated_cost", JInt(0)))
             rest  == _sum_day_costs(Tail(days))
         IN  [ok |-> value.ok /\ rest.ok, v |-> value.v + rest.v]

BreakdownKeys == <<"stay", "food", "transport", "activities", "buffer">>

\* int(stay) + int(food) + int(transport) + int(activities) + int(buffer)
BudgetSum(budget_parts) ==
    LET part(i) == PyInt(Get(budget_parts, BreakdownKeys[i], JInt(0)))
    IN  [ok |-> \A i \in 1..Len(BreakdownKeys) : part(i).ok,
         v  |-> part(1).v + part(2).v + part(3).v + part(4).v + part(5).v]

\* The comparison of generate_plan, lines 268 and 293.
Inconsistent(days_sum, total_estimated, budget_sum, total_budget) ==
    \/ days_sum # total_estimated
    \/ total_estimated > total_budget
    \/ budget_sum # total_budget

\* The arithmetic of generate_plan on one parsed draft: raised stands for an
\* exception of a coercion, bad for a failed comparison.
CheckDraft(raw_plan, total_budget) ==
    LET days_sum        == _sum_day_costs(Get(raw_plan, "days", <<>>))
        total_estimated == PyInt(Get(raw_plan, "total_estimated_cost", JInt(0)))
        budget_sum      == BudgetSum(Get(raw_plan, "budget_breakdown", <<>>))
    IN  IF ~(days_sum.ok /\ total_estimated.ok /\ budget_sum.ok)
        THEN [raised |-> TRUE, bad |-> FALSE]
        ELSE [raised |-> FALSE,
              bad |-> Inconsistent(days_sum.v, total_estimated.v,
                                   budget_sum.v, total_budget)]

\* Planner stage, lines 248-268: what generate_plan does with the planner's
\* reply.  next is the position the call reaches: "fail" (an exception leaves
\* generate_plan), "correction" or "humanizer".
PlannerStage(response, slots) ==
    LET raw_plan_text == _call_llm(response)
        raw_plan      == _extract_json(raw_plan_text.text)
        total_budget  == IntOfStr(Get(slots, "budget", <<"0">>))
        check         == CheckDraft(raw_plan.v, total_budget.v)
        Fail          == [next |-> "fail", raw_plan |-> NoValue]
    IN  IF ~raw_plan_text.ok \/ ~raw_plan.ok THEN Fail
        ELSE IF ~IsDict(raw_plan.v) THEN Fail
        ELSE IF "days" \notin DOMAIN raw_plan.v
                \/ "budget_breakdown" \notin DOMAIN raw_plan.v THEN Fail
        ELSE IF ~total_budget.ok \/ check.raised THEN Fail
        ELSE IF check.bad THEN [next |-> "correction", raw_plan |-> raw_plan.v]
        ELSE [next |-> "humanizer", raw_plan |-> raw_plan.v]

\* Correction stage, lines 281-294.
CorrectionStage(response, slots) ==
    LET corrected_text == _call_llm(response)
        raw_plan       == _extract_json(corrected_text.text)
        total_budget   == IntOfStr(Get(slots, "budget", <<"0">>))
        check          == CheckDraft(raw_plan.v, total_budget.v)
        Fail           == [next |-> "fail", raw_plan |-> NoValue]
    IN  IF ~corrected_text.ok \/ ~raw_plan.ok THEN Fail
        ELSE IF ~IsDict(raw_plan.v) THEN Fail
        ELSE IF check.raised \/ check.bad THEN Fail
        ELSE [next |-> "humanizer", raw_plan |-> raw_plan.v]

\* final_plan.replace("<br>", "\n").replace("<br/>", "\n").replace("<br />", "\n")
ReplaceBr(text) ==
    [i \in 1..Len(text) |->
        IF text[i].t \in {"br", "br/", "br /"} THEN Space ELSE text[i]]

\* Humanizer stage, lines 321-323: the pair generate_plan returns.
HumanizerStage(response, raw_plan) ==
    LET final_plan == _call_llm(response)
    IN  IF ~final_plan.ok
        THEN [next |-> "fail", raw_plan |-> <<>>, final_plan |-> <<>>]
        ELSE [next |-> "return",
              raw_plan   |-> <<Payload(raw_plan)>>,
              final_plan |-> ReplaceBr(final_plan.text)]

(***************************************************************************)
(* Inputs: the texts a user types and the replies the models give.         *)
(***************************************************************************)
TxtBlank == <<" ", " ">>

TxtHi == <<" ", "H", "i", " ">>

TxtHack == <<"p", "l", "s", " ", "H", "A", "C", "K", " ", "i", "t">>

TxtRestart == <<" ", "R", "e", "s", "t", "a", "r", "t", " ">>

TxtNewTrip == <<"n", "e", "w", " ", "t", "r", "i", "p">>

TxtMumbai == <<"m", "u", "m", "b", "a", "i">>

TxtGoa == <<" ", "g", "o", "a", " ">>

TxtYesterday == <<"2", "0", "2", "6", "-", "1", "1", "-", "0", "5">>

TxtToday == <<"2", "0", "2", "6", "-", "1", "1", "-", "0", "6">>

TxtTomorrow == <<"2", "0", "2", "6", "-", "1", "1", "-", "0", "7">>

TxtNextMonth == <<"2", "0", "2", "6", "-", "1", "2", "-", "0", "1">>

TxtSlashDate == <<"0", "6", "/", "1", "1", "/", "2", "0", "2", "6">>

TxtFeb30 == <<"2", "0", "2", "7", "-", "0", "2", "-", "3", "0">>

TxtSolo == <<"S", "o", "l", "o">>

TxtMinus5 == <<"-", "5">>

TxtTwo == <<"2">>

TxtTwoWord == <<"t", "w", "o">>

TxtZero == <<"0">>

TxtMinus1 == <<"-", "1">>

Txt999 == <<"9", "9", "9">>

Txt30000 == <<"3", "0", "0", "0", "0">>

Txt30k == <<"3", "0", ",", "0", "0", "0">>

TxtMid == <<"M", "i", "d", "-", "r", "a", "n", "g", "e">>

TxtFood == <<"f", "o", "o", "d">>

TxtRelaxed == <<"R", "e", "l", "a", "x", "e", "d">>

TxtMix == <<"M", "i", "x">>

TxtYes == <<" ", "Y", "e", "s">>

TxtNo == <<"n", "o">>

TxtChange == <<"r", "e", "d", "u", "c", "e", " ", "b", "u", "d", "g", "e", "t", " ", "t", "o", " ", "2", "0", "0", "0", "0">>

\* Texts tried at every question: blank, a greeting, an unsafe request.
CommonTexts == {TxtBlank, TxtHi, TxtHack}

\* Answers tried at question idx (0-based, as current_question_idx).
AnswerTexts(idx) ==
    CASE idx = 0 -> {TxtMumbai}
      [] idx = 1 -> {TxtGoa}
      [] idx = 2 -> {TxtYesterday, TxtSlashDate, TxtToday, TxtTomorrow}
      [] idx = 3 -> {TxtToday, TxtTomorrow, TxtNextMonth, TxtFeb30}
      [] idx = 4 -> {TxtSolo}
      [] idx = 5 -> {TxtMinus5, TxtTwo, TxtTwoWord}
      [] idx = 6 -> {TxtZero, TxtMinus1}
      [] idx = 7 -> {Txt999, Txt30000, Txt30k}
      [] idx = 8 -> {TxtMid}
      [] idx = 9 -> {TxtFood}
      [] idx = 10 -> {TxtRelaxed}
      [] idx = 11 -> {TxtMix}
      [] OTHER -> {TxtMix}

RestartTexts == {TxtRestart, TxtNewTrip}

RefinementTexts == {TxtYes, TxtNo, TxtChange}

Reply(text) == [fail |-> FALSE, text |-> text]

GatewayFailure == [fail |-> TRUE, text |-> <<>>]

\* What the classifier model may reply.
GuardrailReplies ==
    {GatewayFailure,
     Reply(<<Prose>>),
     Reply(<<Payload([reason |-> JStr(<<"no decision">>)])>>),
     Reply(<<Prose, FenceJson, Payload([decision |-> JStr(DecAllow)]), Fence>>),
     Reply(<<Payload([decision |-> JStr(Lower(DecGreeting))])>>),
     Reply(<<Payload([decision |-> JStr(DecOfftopic),
                      assistant_message |-> JStr(<<"That is not about your trip.">>)])>>),
     Reply(<<Payload([decision |-> JStr(DecUnsafe)])>>),
     Reply(<<Payload([decision |-> JNull])>>)}

\* The normalized values the normalizer model may propose for a text.
NormalizedValues(user_text) ==
    CASE user_text = TxtSlashDate -> {TxtToday}
      [] user_text = TxtTwoWord -> {TxtTwo}
      [] user_text = Txt30k -> {Txt30000}
      [] OTHER -> {Strip(user_text)}

\* What the normalizer model may reply.
NormalizerReplies(user_text) ==
    {GatewayFailure,
     Reply(<<Prose>>),
     Reply(<<Payload([normalized_value |-> JInt(5)])>>),
     Reply(<<Payload([normalized_value |-> JStr(<<" ">>)])>>)}
    \cup {Reply(<<Space, Payload([normalized_value |-> JStr(v)])>>) :
             v \in NormalizedValues(user_text)}

Day(n, cost) == [day |-> JInt(n), estimated_cost |-> cost]

Breakdown(stay, food, transport, activities, buffer) ==
    [stay |-> stay, food |-> food, transport |-> transport,
     activities |-> activities, buffer |-> buffer]

\* Five parts that add up to the budget answer 30000.
FullBreakdown ==
    Breakdown(JInt(12000), JInt(6000), JInt(5000), JInt(4000), JInt(3000))

Draft(days, total, breakdown) ==
    [days |-> days, total_estimated_cost |-> total, budget_breakdown |-> breakdown]

\* Consistent: 10000 + 15000 = 25000 <= 30000.
DraftGood == Draft(<<Day(1, JInt(10000)), Day(2, JInt(15000))>>, JInt(25000), FullBreakdown)

\* Day costs do not add up to the total.
DraftBadSum == Draft(<<Day(1, JInt(10000)), Day(2, JInt(15000))>>, JInt(26000), FullBreakdown)

\* Total above the budget.
DraftOverBudget == Draft(<<Day(1, JInt(20000)), Day(2, JInt(15000))>>, JInt(35000), FullBreakdown)

\* Breakdown adds up to 29000.
DraftBadBreakdown ==
    Draft(<<Day(1, JInt(10000)), Day(2, JInt(15000))>>, JInt(25000),
          Breakdown(JInt(12000), JInt(6000), JInt(5000), JInt(4000), JInt(2000)))

\* Day costs 10000.5 and 15000.5 (25001 together) against a total of 25000.
DraftFractional == Draft(<<Day(1, JHalf(10000)), Day(2, JHalf(15000))>>, JInt(25000), FullBreakdown)

\* A day cost that is not a number.
DraftNonNumeric ==
    Draft(<<Day(1, JStr(<<"a", "b", "c">>)), Day(2, JInt(15000))>>, JInt(25000), FullBreakdown)

\* No "days" key.
DraftNoDays == [total_estimated_cost |-> JInt(0), budget_breakdown |-> FullBreakdown]

\* No "budget_breakdown" key.
DraftNoBreakdown ==
    [days |-> <<Day(1, JInt(10000)), Day(2, JInt(15000))>>,
     total_estimated_cost |-> JInt(25000)]

Drafts ==
    {DraftGood, DraftBadSum, DraftOverBudget, DraftBadBreakdown, DraftFractional,
     DraftNonNumeric, DraftNoDays, DraftNoBreakdown}

\* What the planner model may reply, at the planner and the correction call.
PlanReplies ==
    {GatewayFailure,
     Reply(<<Space>>),
     Reply(<<Prose>>),
     Reply(<<Payload(JsonList)>>),
     Reply(<<Prose, FenceJson, Space, Payload(DraftGood), Space, Fence, Prose>>)}
    \cup {Reply(<<Payload(d)>>) : d \in Drafts}

\* What the humanizer model may reply.
HumanizerReplies ==
    {GatewayFailure,
     Reply(<<Space>>),
     Reply(<<Prose, Br, Prose, BrSlash, Prose, BrSpaceSlash, Prose>>),
     Reply(<<Space, Prose, Space, Prose, Space, Prose, Space, Prose>>)}

(***************************************************************************)
(* Bounds                                                                  *)
(***************************************************************************)
\* Plans generated in one session.
MaxVersion == 2

\* Midnights that pass during one session.
MaxDaysElapsed == 1

(***************************************************************************)
(* app.py: session state (st.session_state), the database and the turn     *)
(***************************************************************************)
VARIABLES
    has_api_key,            \* GROQ_API_KEY is set in the environment
    today,                  \* date.today(), as an ordinal
    initialized,            \* st.session_state.initialized
    agent_state,
    onboarding_sent,
    current_question_idx,
    slots,
    chat_messages,          \* the messages appended in the latest turn; the
                            \* older ones are only ever rendered
    latest_raw_plan,
    latest_final_plan,
    itinerary_version,
    db_session,             \* row of table sessions
    db_slots,               \* row of table slots, <<>> before the first save
    db_itineraries,         \* rows of table itineraries, in insertion order
    pc,                     \* position inside generate_plan, or "idle"
    gen,                    \* the generate_plan call in progress
    calls,                  \* model calls issued in the latest turn, in order
    turn                    \* the latest turn: its input and the branch taken

vars ==
    <<has_api_key, today, initialized, agent_state, onboarding_sent,
      current_question_idx, slots, chat_messages, latest_raw_plan,
      latest_final_plan, itinerary_version, db_session, db_slots,
      db_itineraries, pc, gen, calls, turn>>

StartDay == Ordinal(2026, 11, 6)

EmptySlots == [key \in SlotNames |-> <<>>]

\* A chat message: content is its literal text, plan the itinerary text it
\* carries (a message is one or the other).
UserMessage(content) == [role |-> "user", content |-> content, plan |-> <<>>]

AssistantMessage(content) == [role |-> "assistant", content |-> content, plan |-> <<>>]

PlanMessage(final_plan) == [role |-> "assistant", content |-> <<>>, plan |-> final_plan]

_format_navmarg_intro ==
    <<"Hello, I am **NavMarg**, your AI travel advisor. ",
      "I can help you design a complete, personalized itinerary for your trip.">>

NoGen == [mode |-> "none", previous_itinerary |-> <<>>, change_request |-> <<>>,
          raw_plan |-> NoValue]

Snapshot == [agent_state |-> agent_state, idx |-> current_question_idx,
             version |-> itinerary_version]

NewTurn(input, outcome) ==
    [input |-> input, outcome |-> outcome, start |-> Snapshot,
     guardrail |-> "not_run", decision |-> <<>>,
     normalizer |-> "not_run", normalized |-> <<>>]

\* initialize_session() for a fresh session_state, and the first run of main()
Init ==
    /\ has_api_key \in BOOLEAN
    /\ today = StartDay
    /\ initialized = "True"
    /\ agent_state = "awaiting_first_user_message"
    /\ onboarding_sent = FALSE
    /\ current_question_idx = 0
    /\ slots = EmptySlots
    /\ chat_messages = <<>>
    /\ latest_raw_plan = <<>>
    /\ latest_final_plan = <<>>
    /\ itinerary_version = 0
    /\ db_session = [state |-> "awaiting_first_user_message", idx |-> 0]
    /\ db_slots = <<>>
    /\ db_itineraries = <<>>
    /\ pc = "idle"
    /\ gen = NoGen
    /\ calls = <<>>
    /\ turn = [input |-> <<>>, outcome |-> "none",
               start |-> [agent_state |-> "awaiting_first_user_message",
                          idx |-> 0, version |-> 0],
               guardrail |-> "not_run", decision |-> <<>>,
               normalizer |-> "not_run", normalized |-> <<>>]

IsRestart(user_input) == Lower(Strip(user_input)) \in RestartTokens

\* "initialized" in st.session_state: the key, once set, stays whatever its
\* value, so initialize_session returns at its first line.
HasInitializedKey(value) == value \in {"True", "False"}

\* main(), lines 408-412, then the rerun: init_db, initialize_session (which
\* resets the session only when the key is absent) and the rendering.
Restart(user_input) ==
    /\ pc = "idle"
    /\ IsRestart(user_input)
    /\ initialized' = "False"
    /\ chat_messages' = <<UserMessage(user_input)>>
    /\ turn' = NewTurn(user_input, "restart")
    /\ calls' = <<>>
    /\ IF HasInitializedKey(initialized')
       THEN UNCHANGED <<agent_state, onboarding_sent, current_question_idx, slots,
                        latest_raw_plan, latest_final_plan, itinerary_version,
                        db_session>>
       ELSE /\ agent_state' = "awaiting_first_user_message"
            /\ onboarding_sent' = FALSE
            /\ current_question_idx' = 0
            /\ slots' = EmptySlots
            /\ latest_raw_plan' = <<>>
            /\ latest_final_plan' = <<>>
            /\ itinerary_version' = 0
            /\ db_session' = [state |-> "awaiting_first_user_message", idx |-> 0]
    /\ gen' = NoGen
    /\ UNCHANGED <<has_api_key, today, db_slots, db_itineraries, pc>>

\* main(), lines 414-427: the first message of a session
Onboarding(user_input) ==
    /\ pc = "idle"
    /\ ~IsRestart(user_input)
    /\ agent_state = "awaiting_first_user_message"
    /\ calls' = <<>>
    /\ IF ~onboarding_sent
       THEN /\ chat_messages' =
                 <<UserMessage(user_input),
                   AssistantMessage(_format_navmarg_intro),
                   AssistantMessage(<<"I will ask you a few questions one by one. Once you answer, I will generate your itinerary.">>),
                   AssistantMessage(<<"Let's start with your origin city?">>)>>
            /\ onboarding_sent' = TRUE
            /\ agent_state' = "slot_filling"
            /\ db_session' = [state |-> "slot_filling", idx |-> current_question_idx]
            /\ turn' = NewTurn(user_input, "onboarding")
       ELSE /\ chat_messages' = <<UserMessage(user_input)>>
            /\ turn' = NewTurn(user_input, "ignored")
            /\ UNCHANGED <<onboarding_sent, agent_state, db_session>>
    /\ gen' = NoGen
    /\ UNCHANGED <<has_api_key, today, initialized, current_question_idx, slots,
                   latest_raw_plan, latest_final_plan, itinerary_version,
                   db_slots, db_itineraries, pc>>

\* A variant of GuardrailFallback that fails closed: C8 tells it from
\* GuardrailFallback.
GuardrailFallback_FailClosed ==
    [decision |-> JStr(DecOfftopic), assistant_message |-> JStr(<<>>),
     reason |-> JStr(<<"Guardrail fallback">>)]

\* handle_slot_filling, line 329: the decision used when run_guardrail raises
GuardrailFallback ==
    [decision |-> JStr(DecAllow), assistant_message |-> JStr(<<>>),
     reason |-> JStr(<<"Guardrail fallback">>)]

\* decision.get("assistant_message") or "Please share ...", line 339 (the
\* replies considered carry a string there, or nothing)
BlockedMessage(decision) ==
    LET message == Get(decision, "assistant_message", JNull)
    IN  IF message.k = "str" /\ message.s # <<>> THEN message.s
        ELSE <<"Please share travel-related input so I can continue.">>

\* A variant of AfterValidation that stores the answer and moves on whatever
\* validate_slot said: C2 tells it from AfterValidation.
AfterValidation_StoreAnyway(is_valid, idx, slots_, slot, normalized) ==
    [idx |-> idx + 1, slots |-> [slots_ EXCEPT ![slot] = Strip(normalized)]]

\* handle_slot_filling, lines 348-356: the slots and the index after
\* validation of the normalized answer
AfterValidation(is_valid, idx, slots_, slot, normalized) ==
    IF is_valid
    THEN [idx |-> idx + 1, slots |-> [slots_ EXCEPT ![slot] = Strip(normalized)]]
    ELSE [idx |-> idx, slots |-> slots_]

\* A variant of QuestionsRemain that stops one question early: C3 tells it
\* from QuestionsRemain.
QuestionsRemain_OffByOne(idx) == idx + 1 < Len(QUESTIONS)

\* handle_slot_filling, line 357
QuestionsRemain(idx) == idx < Len(QUESTIONS)

\* _ask_next_question(): the message for question idx (the backquotes
\* around the field note are left out)
NextQuestionMessage(idx) ==
    AssistantMessage(QUESTIONS[idx + 1].question
                     \o <<"\n\n(Field: ", QUESTIONS[idx + 1].slot, ")">>)

\* What a slot-filling turn leaves behind: the branch taken (outcome), the
\* index and slots, the assistant messages, the model calls issued, whether
\* the slots were saved, and whether the handler goes on into
\* _generate_initial_itinerary (generate).
TurnResult(outcome, idx, slots_, messages, calls_, saved, generate, g, name, n, normalized) ==
    [outcome |-> outcome, idx |-> idx, slots |-> slots_, messages |-> messages,
     calls |-> calls_, saved |-> saved, generate |-> generate,
     guardrail |-> IF g.raised THEN "raised"
                   ELSE IF g.called THEN "model" ELSE "local",
     decision |-> name, normalizer |-> n, normalized |-> normalized]

CallOf(result, stage) == IF result.called THEN <<stage>> ELSE <<>>

\* handle_slot_filling, lines 348-367: after validate_slot returned v
AfterValidate(idx, slots_, g, name, n, normalized, v) ==
    LET q     == QUESTIONS[idx + 1]
        after == AfterValidation(v.ok, idx, slots_, q.slot, normalized)
    IN  TurnResult(IF ~v.ok THEN "invalid"
                   ELSE IF QuestionsRemain(after.idx) THEN "stored"
                   ELSE "generate",
                   after.idx, after.slots,
                   IF ~v.ok
                   THEN <<AssistantMessage(v.message \o <<"\n\nPlease answer again:\n">>
                                           \o q.question)>>
                   ELSE IF QuestionsRemain(after.idx)
                   THEN <<NextQuestionMessage(after.idx)>>
                   ELSE <<>>,
                   CallOf(g, "guardrail") \o CallOf(n, "normalizer"),
                   v.ok,
                   v.ok /\ ~QuestionsRemain(after.idx),
                   g, name,
                   IF n.raised THEN "raised" ELSE "returned",
                   normalized)

\* handle_slot_filling, lines 343-348: after refine_user_answer returned or
\* raised (n)
AfterNormalize(user_text, idx, slots_, today_, g, name, n, normalized) ==
    AfterValidate(idx, slots_, g, name, n, normalized,
                  validate_slot(QUESTIONS[idx + 1].slot, normalized, slots_, today_))

\* handle_slot_filling, lines 343-346: the fallback when refine_user_answer
\* raises
NormalizeAndValidate(user_text, idx, slots_, today_, g, name, n) ==
    AfterNormalize(user_text, idx, slots_, today_, g, name, n,
                   IF n.raised THEN Strip(user_text) ELSE n.value)

\* handle_slot_filling, lines 331-346: after run_guardrail returned or raised
\* (g), with decision the dict the handler goes by
AfterGuardrail(user_text, idx, slots_, today_, api_key, norm_reply, g, decision) ==
    LET q      == QUESTIONS[idx + 1]
        dvalue == Get(decision, "decision", JStr(DecAllow))
        Stay(outcome, name, messages) ==
            TurnResult(outcome, idx, slots_, messages, CallOf(g, "guardrail"),
                       FALSE, FALSE, g, name, "not_run", <<>>)
    IN  IF dvalue.k # "str"
        THEN \* None.upper(): AttributeError leaves the handler
             Stay("decision_error", <<>>, <<>>)
        ELSE IF Upper(dvalue.s) = DecGreeting
        THEN Stay("greeting", DecGreeting,
                  <<AssistantMessage(_format_navmarg_intro),
                    AssistantMessage(<<"Please answer this first:\n\n">> \o q.question)>>)
        ELSE IF Upper(dvalue.s) \in {DecOfftopic, DecUnsafe}
        THEN Stay("blocked", Upper(dvalue.s),
                  <<AssistantMessage(BlockedMessage(decision)
                                     \o <<"\n\nCurrent question: ">> \o q.question)>>)
        ELSE NormalizeAndValidate(user_text, idx, slots_, today_, g, Upper(dvalue.s),
                                  refine_user_answer(user_text, api_key, norm_reply))

\* handle_slot_filling, lines 326-329: the fallback when run_guardrail raises
GuardrailOutcome(user_text, idx, slots_, today_, api_key, norm_reply, g) ==
    AfterGuardrail(user_text, idx, slots_, today_, api_key, norm_reply, g,
                   IF g.raised THEN GuardrailFallback ELSE g.parsed)

\* handle_slot_filling(user_text) up to the call of generate_plan
handle_slot_filling(user_text, idx, slots_, today_, api_key, guard_reply, norm_reply) ==
    GuardrailOutcome(user_text, idx, slots_, today_, api_key, norm_reply,
                     run_guardrail(user_text, api_key, guard_reply))

\* main(), lines 428-429: a turn in slot_filling
SlotFilling(user_input, guard_reply, norm_reply) ==
    /\ pc = "idle"
    /\ ~IsRestart(user_input)
    /\ agent_state = "slot_filling"
    /\ IF current_question_idx >= Len(QUESTIONS)
       THEN \* get_current_question(): IndexError leaves the handler
            /\ chat_messages' = <<UserMessage(user_input)>>
            /\ turn' = NewTurn(user_input, "index_error")
            /\ calls' = <<>>
            /\ gen' = NoGen
            /\ UNCHANGED <<current_question_idx, slots, db_session, db_slots, pc>>
       ELSE \E r \in {handle_slot_filling(user_input, current_question_idx, slots,
                                           today, has_api_key, guard_reply, norm_reply)} :
                /\ chat_messages' = <<UserMessage(user_input)>> \o r.messages
                /\ turn' = [NewTurn(user_input, r.outcome) EXCEPT
                               !.guardrail = r.guardrail, !.decision = r.decision,
                               !.normalizer = r.normalizer,
                               !.normalized = r.normalized]
                /\ calls' = r.calls
                /\ current_question_idx' = r.idx
                /\ slots' = r.slots
                /\ db_slots' = IF r.saved
                               THEN <<[values |-> r.slots, is_complete |-> r.generate]>>
                               ELSE db_slots
                /\ db_session' = IF r.saved /\ ~r.generate
                                 THEN [state |-> agent_state, idx |-> r.idx]
                                 ELSE db_session
                /\ pc' = IF r.generate THEN "planner" ELSE "idle"
                /\ gen' = IF r.generate
                          THEN [mode |-> "initial", previous_itinerary |-> <<>>,
                                change_request |-> <<>>, raw_plan |-> NoValue]
                          ELSE NoGen
    /\ UNCHANGED <<has_api_key, today, initialized, agent_state, onboarding_sent,
                   latest_raw_plan, latest_final_plan, itinerary_version,
                   db_itineraries>>

\* A variant of Refinement that reads a negative token as a change request:
\* C17 tells it from Refinement.
Refinement_NoNegativeTokens(user_input) ==
    LET lower == Lower(Strip(user_input))
    IN  /\ pc = "idle"
        /\ ~IsRestart(user_input)
        /\ agent_state = "awaiting_changes"
        /\ calls' = <<>>
        /\ IF lower \in AffirmativeTokens
           THEN /\ agent_state' = "completed"
                /\ db_session' = [state |-> "completed", idx |-> current_question_idx]
                /\ chat_messages' =
                     <<UserMessage(user_input),
                       AssistantMessage(<<"Perfect. Glad I could help. If you want a new plan, type restart.">>)>>
                /\ turn' = NewTurn(user_input, "completed")
                /\ gen' = NoGen
                /\ pc' = "idle"
           ELSE IF FALSE
           THEN /\ chat_messages' =
                     <<UserMessage(user_input),
                       AssistantMessage(<<"Tell me exactly what to change, and I will regenerate the full itinerary.">>)>>
                /\ turn' = NewTurn(user_input, "ask_changes")
                /\ gen' = NoGen
                /\ pc' = "idle"
                /\ UNCHANGED <<agent_state, db_session>>
           ELSE /\ itinerary_version < MaxVersion
                /\ chat_messages' = <<UserMessage(user_input)>>
                /\ turn' = NewTurn(user_input, "generate")
                /\ gen' = [mode |-> "refine",
                           previous_itinerary |-> latest_final_plan,
                           change_request |-> user_input, raw_plan |-> NoValue]
                /\ pc' = "planner"
                /\ UNCHANGED <<agent_state, db_session>>
        /\ UNCHANGED <<has_api_key, today, initialized, onboarding_sent,
                       current_question_idx, slots, latest_raw_plan,
                       latest_final_plan, itinerary_version, db_slots,
                       db_itineraries>>

\* main(), lines 430-431, and handle_refinement up to the call of
\* generate_plan in _generate_refined_itinerary
Refinement(user_input) ==
    LET lower == Lower(Strip(user_input))
    IN  /\ pc = "idle"
        /\ ~IsRestart(user_input)
        /\ agent_state = "awaiting_changes"
        /\ calls' = <<>>
        /\ IF lower \in AffirmativeTokens
           THEN /\ agent_state' = "completed"
                /\ db_session' = [state |-> "completed", idx |-> current_question_idx]
                /\ chat_messages' =
                     <<UserMessage(user_input),
                       AssistantMessage(<<"Perfect. Glad I could help. If you want a new plan, type restart.">>)>>
                /\ turn' = NewTurn(user_input, "completed")
                /\ gen' = NoGen
                /\ pc' = "idle"
           ELSE IF lower \in NegativeTokens
           THEN /\ chat_messages' =
                     <<UserMessage(user_input),
                       AssistantMessage(<<"Tell me exactly what to change, and I will regenerate the full itinerary.">>)>>
                /\ turn' = NewTurn(user_input, "ask_changes")
                /\ gen' = NoGen
                /\ pc' = "idle"
                /\ UNCHANGED <<agent_state, db_session>>
           ELSE /\ itinerary_version < MaxVersion
                /\ chat_messages' = <<UserMessage(user_input)>>
                /\ turn' = NewTurn(user_input, "generate")
                /\ gen' = [mode |-> "refine",
                           previous_itinerary |-> latest_final_plan,
                           change_request |-> user_input, raw_plan |-> NoValue]
                /\ pc' = "planner"
                /\ UNCHANGED <<agent_state, db_session>>
        /\ UNCHANGED <<has_api_key, today, initialized, onboarding_sent,
                       current_question_idx, slots, latest_raw_plan,
                       latest_final_plan, itinerary_version, db_slots,
                       db_itineraries>>

\* A variant of Completed that takes the input as a reason to reopen the
\* plan: C18 tells it from Completed.
Completed_Reopens(user_input) ==
    /\ pc = "idle"
    /\ ~IsRestart(user_input)
    /\ agent_state = "completed"
    /\ chat_messages' =
         <<UserMessage(user_input),
           AssistantMessage(<<"Session completed. Type restart to begin a new itinerary.">>)>>
    /\ turn' = NewTurn(user_input, "session_completed")
    /\ calls' = <<>>
    /\ gen' = NoGen
    /\ agent_state' = "awaiting_changes"
    /\ UNCHANGED <<has_api_key, today, initialized, onboarding_sent,
                   current_question_idx, slots, latest_raw_plan, latest_final_plan,
                   itinerary_version, db_session, db_slots, db_itineraries, pc>>

\* main(), lines 432-433: a turn after completion
Completed(user_input) ==
    /\ pc = "idle"
    /\ ~IsRestart(user_input)
    /\ agent_state = "completed"
    /\ chat_messages' =
         <<UserMessage(user_input),
           AssistantMessage(<<"Session completed. Type restart to begin a new itinerary.">>)>>
    /\ turn' = NewTurn(user_input, "session_completed")
    /\ calls' = <<>>
    /\ gen' = NoGen
    /\ UNCHANGED <<has_api_key, today, initialized, agent_state, onboarding_sent,
                   current_question_idx, slots, latest_raw_plan, latest_final_plan,
                   itinerary_version, db_session, db_slots, db_itineraries, pc>>

\* A variant of GenFail that counts the failed attempt as a plan version:
\* C10 tells it from GenFail.
GenFail_CountVersion ==
    /\ pc' = "idle"
    /\ turn' = [turn EXCEPT !.outcome = "generation_failed"]
    /\ itinerary_version' = itinerary_version + 1
    /\ UNCHANGED <<has_api_key, today, initialized, agent_state, onboarding_sent,
                   current_question_idx, slots, chat_messages, latest_raw_plan,
                   latest_final_plan, db_session, db_slots, db_itineraries, gen>>

\* An exception leaves generate_plan: it propagates through the handler and
\* main(), so nothing after the call runs.
GenFail ==
    /\ pc' = "idle"
    /\ turn' = [turn EXCEPT !.outcome = "generation_failed"]
    /\ UNCHANGED <<has_api_key, today, initialized, agent_state, onboarding_sent,
                   current_question_idx, slots, chat_messages, latest_raw_plan,
                   latest_final_plan, itinerary_version, db_session, db_slots,
                   db_itineraries, gen>>

\* generate_plan, lines 183-268: _build_client and the planner call
GenPlanner(response) ==
    /\ pc = "planner"
    /\ IF ~has_api_key
       THEN GenFail /\ UNCHANGED calls
       ELSE \E r \in {PlannerStage(response, slots)} :
                /\ calls' = Append(calls, "planner")
                /\ IF r.next = "fail"
                   THEN GenFail
                   ELSE /\ pc' = r.next
                        /\ gen' = [gen EXCEPT !.raw_plan = r.raw_plan]
                        /\ UNCHANGED <<has_api_key, today, initialized, agent_state,
                                       onboarding_sent, current_question_idx, slots,
                                       chat_messages, latest_raw_plan,
                                       latest_final_plan, itinerary_version,
                                       db_session, db_slots, db_itineraries, turn>>

\* generate_plan, lines 269-294: the correction call
GenCorrection(response) ==
    /\ pc = "correction"
    /\ \E r \in {CorrectionStage(response, slots)} :
           /\ calls' = Append(calls, "correction")
           /\ IF r.next = "fail"
              THEN GenFail
              ELSE /\ pc' = r.next
                   /\ gen' = [gen EXCEPT !.raw_plan = r.raw_plan]
                   /\ UNCHANGED <<has_api_key, today, initialized, agent_state,
                                  onboarding_sent, current_question_idx, slots,
                                  chat_messages, latest_raw_plan,
                                  latest_final_plan, itinerary_version,
                                  db_session, db_slots, db_itineraries, turn>>

\* A variant of GenHumanizer that saves every plan as version 1: C14 tells
\* it from GenHumanizer.
GenHumanizer_VersionOne(response) ==
    /\ pc = "humanizer"
    /\ \E r \in {HumanizerStage(response, gen.raw_plan)} :
           /\ calls' = Append(calls, "humanizer")
           /\ IF r.next = "fail"
              THEN GenFail
              ELSE /\ pc' = "idle"
                   /\ itinerary_version' = itinerary_version + 1
                   /\ latest_raw_plan' = r.raw_plan
                   /\ latest_final_plan' = r.final_plan
                   /\ db_itineraries' =
                        Append(db_itineraries,
                               [version |-> 1,
                                raw_plan |-> r.raw_plan,
                                final_plan |-> r.final_plan,
                                change_request |-> gen.change_request])
                   /\ turn' = [turn EXCEPT !.outcome = "generated"]
                   /\ IF gen.mode = "initial"
                      THEN /\ chat_messages' = chat_messages \o
                                <<PlanMessage(r.final_plan),
                                  AssistantMessage(<<"Are you satisfied with this plan? Reply yes or share changes.">>)>>
                           /\ agent_state' = "awaiting_changes"
                           /\ db_session' = [state |-> "awaiting_changes",
                                             idx |-> current_question_idx]
                      ELSE /\ chat_messages' = chat_messages \o
                                <<PlanMessage(r.final_plan),
                                  AssistantMessage(<<"Updated. Are you satisfied now? Reply yes or send more changes.">>)>>
                           /\ UNCHANGED <<agent_state, db_session>>
                   /\ UNCHANGED <<has_api_key, today, initialized, onboarding_sent,
                                  current_question_idx, slots, db_slots, gen>>

\* generate_plan, lines 296-323, and the rest of the caller:
\* _generate_initial_itinerary, lines 261-279, or
\* _generate_refined_itinerary, lines 290-302
GenHumanizer(response) ==
    /\ pc = "humanizer"
    /\ \E r \in {HumanizerStage(response, gen.raw_plan)} :
           /\ calls' = Append(calls, "humanizer")
           /\ IF r.next = "fail"
              THEN GenFail
              ELSE /\ pc' = "idle"
                   /\ itinerary_version' = itinerary_version + 1
                   /\ latest_raw_plan' = r.raw_plan
                   /\ latest_final_plan' = r.final_plan
                   /\ db_itineraries' =
                        Append(db_itineraries,
                               [version |-> itinerary_version + 1,
                                raw_plan |-> r.raw_plan,
                                final_plan |-> r.final_plan,
                                change_request |-> gen.change_request])
                   /\ turn' = [turn EXCEPT !.outcome = "generated"]
                   /\ IF gen.mode = "initial"
                      THEN /\ chat_messages' = chat_messages \o
                                <<PlanMessage(r.final_plan),
                                  AssistantMessage(<<"Are you satisfied with this plan? Reply yes or share changes.">>)>>
                           /\ agent_state' = "awaiting_changes"
                           /\ db_session' = [state |-> "awaiting_changes",
                                             idx |-> current_question_idx]
                      ELSE /\ chat_messages' = chat_messages \o
                                <<PlanMessage(r.final_plan),
                                  AssistantMessage(<<"Updated. Are you satisfied now? Reply yes or send more changes.">>)>>
                           /\ UNCHANGED <<agent_state, db_session>>
                   /\ UNCHANGED <<has_api_key, today, initialized, onboarding_sent,
                                  current_question_idx, slots, db_slots, gen>>

\* Midnight passes between two turns: date.today() moves on.
DayPasses ==
    /\ pc = "idle"
    /\ today < StartDay + MaxDaysElapsed
    /\ today' = today + 1
    /\ UNCHANGED <<has_api_key, initialized, agent_state, onboarding_sent,
                   current_question_idx, slots, chat_messages, latest_raw_plan,
                   latest_final_plan, itinerary_version, db_session, db_slots,
                   db_itineraries, pc, gen, calls, turn>>

\* The texts tried in the current state.
UserTexts ==
    IF agent_state = "slot_filling"
    THEN CommonTexts \cup AnswerTexts(current_question_idx)
    ELSE IF agent_state = "awaiting_changes" THEN RefinementTexts
    ELSE {TxtHi, TxtMumbai}

\* The classifier replies that matter for a text: one stands for all when
\* run_guardrail never reads the reply.
GuardrailRepliesFor(user_input) ==
    IF current_question_idx >= Len(QUESTIONS)
       \/ ~run_guardrail(user_input, TRUE, GatewayFailure).called
    THEN {GatewayFailure}
    ELSE GuardrailReplies

\* The normalizer replies that matter: one stands for all when the turn ends
\* before refine_user_answer.
NormalizerRepliesFor(user_input, guard_reply) ==
    IF current_question_idx >= Len(QUESTIONS)
       \/ handle_slot_filling(user_input, current_question_idx, slots, today,
                              has_api_key, guard_reply, GatewayFailure).normalizer
            = "not_run"
    THEN {GatewayFailure}
    ELSE NormalizerReplies(user_input)

Next ==
    \/ \E user_input \in RestartTexts : Restart(user_input)
    \/ \E user_input \in UserTexts : Onboarding(user_input)
    \/ \E user_input \in UserTexts :
          \E guard_reply \in GuardrailRepliesFor(user_input) :
             \E norm_reply \in NormalizerRepliesFor(user_input, guard_reply) :
                SlotFilling(user_input, guard_reply, norm_reply)
    \/ \E user_input \in UserTexts : Refinement(user_input)
    \/ \E user_input \in UserTexts : Completed(user_input)
    \/ \E response \in PlanReplies : GenPlanner(response)
    \/ \E response \in PlanReplies : GenCorrection(response)
    \/ \E response \in HumanizerReplies : GenHumanizer(response)
    \/ DayPasses

Spec == Init /\ [][Next]_vars

(***************************************************************************)
(* Properties                                                              *)
(***************************************************************************)
AllSlotsEmpty == \A key \in SlotNames : slots[key] = <<>>

AllSlotsFilled == \A key \in SlotNames : Strip(slots[key]) # <<>>

InGenerate == pc \in {"planner", "correction", "humanizer"}

\* The model calls of generate_plan among the calls of the latest turn.
GenCalls == SelectSeq(calls, LAMBDA stage : stage \in {"planner", "correction", "humanizer"})

\* The budget answer as generate_plan reads it.
BudgetOfSlots == IntOfStr(slots["budget"]).v

(* C1: a restart input, in any dialogue state, leaves the session with all   *)
(* twelve slots empty, question index 0 and dialogue state                   *)
(* awaiting_first_user_message before the next input is processed.           *)
C1_RestartResetsSession ==
    (turn.outcome = "restart" /\ pc = "idle") =>
        /\ AllSlotsEmpty
        /\ current_question_idx = 0
        /\ agent_state = "awaiting_first_user_message"

\* The step is a slot-filling turn that gets as far as a question.
SlotTurnStep ==
    /\ pc = "idle"
    /\ agent_state = "slot_filling"
    /\ current_question_idx < Len(QUESTIONS)
    /\ today' = today
    /\ turn'.outcome # "restart"

(* C2: a slot-filling turn whose normalized answer fails validation leaves   *)
(* the question index, the twelve slots, the dialogue state and the plan     *)
(* version unchanged; it only appends the user's message and one assistant   *)
(* message that asks the same question again.                                *)
C2_InvalidAnswerChangesNothing ==
    [][ ( /\ SlotTurnStep
          /\ turn'.normalizer # "not_run"
          /\ ~validate_slot(QUESTIONS[current_question_idx + 1].slot,
                            turn'.normalized, slots, today).ok )
        => ( /\ UNCHANGED <<current_question_idx, slots, agent_state,
                            itinerary_version, latest_raw_plan, latest_final_plan,
                            db_session, db_slots, db_itineraries, pc>>
             /\ Len(chat_messages') = 2
             /\ chat_messages'[1] = UserMessage(turn'.input)
             /\ chat_messages'[2].role = "assistant"
             /\ Contains(chat_messages'[2].content,
                         QUESTIONS[current_question_idx + 1].question) ) ]_vars

\* "-5" for adults was rejected with the adults message; the index stays at 5.
C2_Witness ==
    /\ turn.outcome = "invalid"
    /\ turn.input = TxtMinus5
    /\ turn.normalized = TxtMinus5
    /\ current_question_idx = 5
    /\ Len(chat_messages) = 2
    /\ Contains(chat_messages[2].content, <<"At least 1 adult is required.">>)

(* C3: whenever generate_plan is running, for the initial plan or for a      *)
(* refinement, every one of the twelve slots holds a non-blank value.        *)
C3_GenerateOnlyWithAllSlots == InGenerate => AllSlotsFilled

\* A refinement call of generate_plan is in progress.
C3_Witness == pc = "planner" /\ gen.mode = "refine" /\ AllSlotsFilled

\* The exact value of a JSON number or numeric string, in half units.
ExactHalf(value) ==
    IF value.k = "num" THEN value.h ELSE 2 * IntOfStr(value.s).v

RECURSIVE ExactDaySum(_)
ExactDaySum(days) ==
    IF days = <<>> THEN 0
    ELSE ExactHalf(Get(days[1], "estimated_cost", JInt(0))) + ExactDaySum(Tail(days))

ExactBreakdownSum(parts) ==
    LET part(i) == ExactHalf(Get(parts, BreakdownKeys[i], JInt(0)))
    IN  part(1) + part(2) + part(3) + part(4) + part(5)

\* The three invariants on the values a draft holds (an absent field counts
\* as 0), against a budget.
DraftInvariants(draft, budget) ==
    LET total == ExactHalf(Get(draft, "total_estimated_cost", JInt(0)))
    IN  /\ ExactDaySum(Get(draft, "days", <<>>)) = total
        /\ total <= 2 * budget
        /\ ExactBreakdownSum(Get(draft, "budget_breakdown", <<>>)) = 2 * budget

(* C4: every draft that generate_plan returns has day costs that add up to   *)
(* total_estimated_cost, a total_estimated_cost not above the budget slot,   *)
(* and five breakdown parts that add up to the budget slot exactly.          *)
C4_AcceptedDraftIsConsistent ==
    turn.outcome = "generated" =>
        DraftInvariants(latest_raw_plan[1].v, BudgetOfSlots)

\* The last model call of the generate_plan call in progress or just ended.
LastGenCall == IF GenCalls = <<>> THEN "none" ELSE GenCalls[Len(GenCalls)]

(* C5: in one generate_plan call the correction call is issued at most once  *)
(* and only for a planner draft that violates one of the three invariants;   *)
(* when the corrected draft still violates one, generate_plan fails and      *)
(* issues no further model call (so a call that goes on past the correction  *)
(* holds a corrected draft that satisfies all three).                        *)
C5_SingleCorrection ==
    /\ Len(SelectSeq(GenCalls, LAMBDA stage : stage = "correction")) <= 1
    /\ pc = "correction" =>
          /\ GenCalls = <<"planner">>
          /\ ~DraftInvariants(gen.raw_plan, BudgetOfSlots)
    /\ (Len(GenCalls) >= 2 /\ GenCalls[2] = "correction") =>
          \/ /\ pc = "idle"
             /\ turn.outcome = "generation_failed"
             /\ GenCalls = <<"planner", "correction">>
          \/ DraftInvariants(gen.raw_plan, BudgetOfSlots)

(* C6: one generate_plan call issues at most three model calls, in the order *)
(* planner, at most one correction, humanizer; the humanizer is called only  *)
(* with a draft that satisfies all three invariants, and the draft returned  *)
(* to the caller is that same draft.                                         *)
C6_CallOrderAndVerifiedDraft ==
    /\ GenCalls \in {<<>>, <<"planner">>, <<"planner", "correction">>,
                     <<"planner", "humanizer">>,
                     <<"planner", "correction", "humanizer">>}
    /\ (pc = "humanizer" \/ LastGenCall = "humanizer") =>
          DraftInvariants(gen.raw_plan, BudgetOfSlots)
    /\ turn.outcome = "generated" =>
          /\ LastGenCall = "humanizer"
          /\ latest_raw_plan = <<Payload(gen.raw_plan)>>

\* A slot-filling turn in which run_guardrail was called.
GuardrailRan == turn.guardrail # "not_run"

LocalDecision(name) ==
    /\ turn.guardrail = "local"
    /\ turn.decision = name
    /\ \A i \in 1..Len(calls) : calls[i] # "guardrail"

(* C7: the guardrail decides locally, without a model call: OFFTOPIC for an  *)
(* input of whitespace only, GREETING for an input that after trimming and   *)
(* lower-casing is a greeting token, UNSAFE for an input that contains an    *)
(* unsafe fragment; the classifier model is called only when none of the     *)
(* three applies.                                                            *)
C7_LocalHeuristicsWithoutModelCall ==
    GuardrailRan =>
        LET text     == Lower(Strip(turn.input))
            blank    == Strip(turn.input) = <<>>
            greeting == text \in greetings
            unsafe   == \E fragment \in banned_fragments : Contains(text, fragment)
        IN  /\ blank => LocalDecision(DecOfftopic)
            /\ greeting => LocalDecision(DecGreeting)
            /\ (unsafe /\ ~greeting) => LocalDecision(DecUnsafe)
            /\ (\E i \in 1..Len(calls) : calls[i] = "guardrail") =>
                   ~(blank \/ greeting \/ unsafe)
            /\ turn.guardrail = "local" => (blank \/ greeting \/ unsafe)

\* "pls HACK it" was blocked as unsafe without a model call, although the
\* credentials are set.
C7_Witness ==
    /\ GuardrailRan
    /\ turn.input = TxtHack
    /\ turn.decision = DecUnsafe
    /\ turn.outcome = "blocked"
    /\ calls = <<>>
    /\ has_api_key

(* C8: in slot_filling, when run_guardrail fails (gateway failure,           *)
(* unparseable reply, reply without a decision, no credentials) the turn     *)
(* goes on as for ALLOW: the answer is normalized and validated and, if      *)
(* valid, stored with the question index advanced by one; otherwise the same *)
(* question is asked again.  The turn is never blocked or aborted.           *)
C8_GuardrailFailsOpen ==
    [][ (SlotTurnStep /\ turn'.guardrail = "raised")
        => LET slot == QUESTIONS[current_question_idx + 1].slot
           IN  /\ turn'.decision = DecAllow
               /\ turn'.normalizer # "not_run"
               /\ turn'.outcome \in {"invalid", "stored", "generate"}
               /\ IF validate_slot(slot, turn'.normalized, slots, today).ok
                  THEN /\ slots' = [slots EXCEPT ![slot] = Strip(turn'.normalized)]
                       /\ current_question_idx' = current_question_idx + 1
                       /\ turn'.outcome \in {"stored", "generate"}
                  ELSE /\ UNCHANGED <<slots, current_question_idx>>
                       /\ turn'.outcome = "invalid" ]_vars

\* "mumbai" for origin was stored although the classifier call was issued and
\* failed.
C8_Witness ==
    /\ turn.guardrail = "raised"
    /\ calls # <<>>
    /\ calls[1] = "guardrail"
    /\ turn.input = TxtMumbai
    /\ turn.outcome = "stored"
    /\ slots["origin"] = TxtMumbai
    /\ current_question_idx = 1

(* C9: when generate_plan fails, in the turn that answers the last question  *)
(* or in a refinement turn, the dialogue state and the question index have   *)
(* the values they had before the turn, and the question index still names a *)
(* question, so that the same input can be processed again.                  *)
C9_FailedGenerationKeepsDialogue ==
    turn.outcome = "generation_failed" =>
        /\ agent_state = turn.start.agent_state
        /\ current_question_idx = turn.start.idx
        /\ agent_state = "slot_filling" => current_question_idx < Len(QUESTIONS)

NoPlanMessage(messages) == \A i \in 1..Len(messages) : messages[i].plan = <<>>

(* C10: a turn in which generate_plan fails stores and shows no plan: from   *)
(* the start of the call to its failure the plan version, the latest draft,  *)
(* the latest final plan and the itinerary records stay as they were, and    *)
(* the transcript of the turn holds no plan message.                         *)
C10_NoPlanOnFailure ==
    [][ (InGenerate' \/ turn'.outcome = "generation_failed")
        => /\ UNCHANGED <<itinerary_version, latest_raw_plan, latest_final_plan,
                          db_itineraries>>
           /\ NoPlanMessage(chat_messages') ]_vars

\* A refinement of version 1 failed after the correction call.
C10_Witness ==
    /\ turn.outcome = "generation_failed"
    /\ gen.mode = "refine"
    /\ GenCalls = <<"planner", "correction">>
    /\ itinerary_version = 1
    /\ Len(db_itineraries) = 1
    /\ NoPlanMessage(chat_messages)

(***************************************************************************)
(* The date questions on their own: a session without credentials (both    *)
(* model calls fall back), started on one of several days, answering the   *)
(* first four questions with dates near and far apart.                     *)
(***************************************************************************)
TxtYearEnd == <<"2", "0", "2", "6", "-", "1", "2", "-", "3", "1">>

TxtNewYear == <<"2", "0", "2", "7", "-", "0", "1", "-", "0", "1">>

TxtLeapDay == <<"2", "0", "2", "8", "-", "0", "2", "-", "2", "9">>

TxtAfterLeapDay == <<"2", "0", "2", "8", "-", "0", "3", "-", "0", "1">>

TxtFarAhead == <<"2", "0", "3", "0", "-", "1", "1", "-", "0", "5">>

TxtNoLeapDay == <<"2", "0", "2", "7", "-", "0", "2", "-", "2", "9">>

DateTexts ==
    {TxtYesterday, TxtToday, TxtTomorrow, TxtNextMonth, TxtYearEnd, TxtNewYear,
     TxtLeapDay, TxtAfterLeapDay, TxtFarAhead, TxtNoLeapDay, TxtFeb30, TxtSlashDate}

\* The days on which the session may run.
TodayTexts == {TxtToday, TxtNewYear, TxtAfterLeapDay}

DateAnswerTexts(idx) ==
    CASE idx = 0 -> {TxtMumbai}
      [] idx = 1 -> {TxtGoa}
      [] OTHER -> DateTexts

InitDates ==
    /\ has_api_key = FALSE
    /\ today \in {DateFromIso(text).ord : text \in TodayTexts}
    /\ initialized = "True"
    /\ agent_state = "awaiting_first_user_message"
    /\ onboarding_sent = FALSE
    /\ current_question_idx = 0
    /\ slots = EmptySlots
    /\ chat_messages = <<>>
    /\ latest_raw_plan = <<>>
    /\ latest_final_plan = <<>>
    /\ itinerary_version = 0
    /\ db_session = [state |-> "awaiting_first_user_message", idx |-> 0]
    /\ db_slots = <<>>
    /\ db_itineraries = <<>>
    /\ pc = "idle"
    /\ gen = NoGen
    /\ calls = <<>>
    /\ turn = [input |-> <<>>, outcome |-> "none",
               start |-> [agent_state |-> "awaiting_first_user_message",
                          idx |-> 0, version |-> 0],
               guardrail |-> "not_run", decision |-> <<>>,
               normalizer |-> "not_run", normalized |-> <<>>]

DateAnswer(user_input) ==
    /\ current_question_idx < 4
    /\ SlotFilling(user_input, GatewayFailure, GatewayFailure)

NextDates ==
    \/ Onboarding(TxtHi)
    \/ \E user_input \in DateAnswerTexts(current_question_idx) : DateAnswer(user_input)

SpecDates == InitDates /\ [][NextDates]_vars

\* The year, month and day a YYYY-MM-DD text names.
DateTriple(text) ==
    <<DigitsValue(SubSeq(text, 1, 4)), DigitsValue(SubSeq(text, 6, 7)),
      DigitsValue(SubSeq(text, 9, 10))>>

\* Calendar order: date a is strictly before date b.
DateBefore(a, b) ==
    LET x == DateTriple(a)
        y == DateTriple(b)
    IN  \/ x[1] < y[1]
        \/ x[1] = y[1] /\ x[2] < y[2]
        \/ x[1] = y[1] /\ x[2] = y[2] /\ x[3] < y[3]

\* The text is not before the day the session runs on.
NotBeforeToday(text) ==
    \E t \in TodayTexts : DateFromIso(t).ord = today /\ ~DateBefore(text, t)

(* C11: with a valid start_date stored, an answer to the end_date question   *)
(* that is a valid calendar date is rejected whenever it is strictly before  *)
(* start_date in calendar order, however far apart the two are, and is       *)
(* accepted and stored when it is on or after start_date and not before the  *)
(* current date.                                                             *)
C11_EndDateNotBeforeStartDate ==
    [][ ( /\ SlotTurnStep
          /\ current_question_idx = 3
          /\ turn'.normalizer # "not_run"
          /\ DateFromIso(slots["start_date"]).ok
          /\ DateFromIso(turn'.normalized).ok )
        => /\ DateBefore(turn'.normalized, slots["start_date"]) =>
                 /\ turn'.outcome = "invalid"
                 /\ UNCHANGED <<slots, current_question_idx>>
           /\ ( /\ ~DateBefore(turn'.normalized, slots["start_date"])
                /\ NotBeforeToday(turn'.normalized) ) =>
                 /\ turn'.outcome = "stored"
                 /\ slots'["end_date"] = turn'.normalized
                 /\ current_question_idx' = 4 ]_vars

\* The leap day 2028-02-29 was rejected as end date for the start date
\* 2028-03-01, in a session running in 2026.
C11_Witness ==
    /\ turn.outcome = "invalid"
    /\ current_question_idx = 3
    /\ slots["start_date"] = TxtAfterLeapDay
    /\ turn.normalized = TxtLeapDay
    /\ today = Ordinal(2026, 11, 6)
    /\ Contains(chat_messages[2].content, <<"End date cannot be before start date.">>)

\* An end date four years after the start date was stored.
C11_WitnessAccepted ==
    /\ turn.outcome = "stored"
    /\ current_question_idx = 4
    /\ slots["start_date"] = TxtToday
    /\ slots["end_date"] = TxtFarAhead

\* The number a change request ends with ("reduce budget to 20000").
RequestedBudget(change_request) ==
    LET spaces == {i \in 1..Len(change_request) : change_request[i] = " "}
    IN  IntOfStr(SubSeq(change_request, SetMax(spaces) + 1, Len(change_request))).v

(* C12: when a plan accepted for the budget slot 30000 is refined with the   *)
(* change request "reduce budget to 20000", every draft the refinement call  *)
(* returns has total_estimated_cost <= 20000.                                *)
C12_ChangeRequestBudgetEnforced ==
    ( /\ turn.outcome = "generated"
      /\ gen.mode = "refine"
      /\ gen.change_request = TxtChange
      /\ slots["budget"] = Txt30000 )
    => ExactHalf(Get(latest_raw_plan[1].v, "total_estimated_cost", JInt(0)))
          <= 2 * RequestedBudget(gen.change_request)

\* The value validate_slot accepts for the slot, read on the stored text
\* itself, with the date bound left open.
WellFormed(key, value, start_date) ==
    LET number == IntOfStr(Strip(RemoveChar(value, ",")))
    IN  /\ Strip(value) # <<>>
        /\ key \in {"start_date", "end_date"} => DateFromIso(value).ok
        /\ (key = "end_date" /\ start_date # <<>>) =>
              /\ DateFromIso(start_date).ok
              /\ DateFromIso(value).ord >= DateFromIso(start_date).ord
        /\ key = "adults" => (number.ok /\ number.v >= 1)
        /\ key = "children" => (number.ok /\ number.v >= 0)
        /\ key = "budget" => (number.ok /\ number.v >= 1000)

(* C13 as stated: in every reachable state each slot is empty or holds a     *)
(* value its validator accepts, dates being not before the current date.     *)
C13_SlotsSatisfyValidators ==
    \A key \in SlotNames :
        slots[key] = <<>> \/ validate_slot(key, slots[key], slots, today).ok

(* C13 as amended: in every reachable state each slot is empty or holds a    *)
(* value of the form its validator accepts (dates parse, end_date is not     *)
(* before start_date, adults >= 1, children >= 0, budget >= 1000), and a     *)
(* date is not before the current date at the time it is stored.             *)
C13_SlotsSatisfiedValidatorsWhenStored ==
    [][ \A key \in SlotNames :
          /\ slots'[key] = <<>> \/ WellFormed(key, slots'[key], slots'["start_date"])
          /\ (key \in {"start_date", "end_date"} /\ slots'[key] # slots[key]) =>
                DateFromIso(slots'[key]).ord >= today ]_vars

\* Every validated slot is filled and the start date, stored as the current
\* date, is now in the past.
C13_Witness ==
    /\ slots["budget"] # <<>>
    /\ slots["adults"] # <<>>
    /\ slots["children"] # <<>>
    /\ slots["end_date"] # <<>>
    /\ DateFromIso(slots["start_date"]).ord < today

(* C14: the itinerary records of a session carry the versions 1, 2, 3, ...  *)
(* in the order they were appended; the first has an empty change request,   *)
(* each later one the change request of the refinement turn that produced    *)
(* it; and itinerary_version equals the number of records.                   *)
C14_VersionsCountRecords ==
    /\ itinerary_version = Len(db_itineraries)
    /\ \A i \in 1..Len(db_itineraries) :
          /\ db_itineraries[i].version = i
          /\ (i = 1) => (db_itineraries[i].change_request = <<>>)
    /\ (turn.outcome = "generated" /\ turn.start.agent_state = "awaiting_changes") =>
          /\ itinerary_version = turn.start.version + 1
          /\ db_itineraries[itinerary_version].change_request = turn.input
          /\ db_itineraries[itinerary_version].raw_plan = latest_raw_plan
          /\ db_itineraries[itinerary_version].final_plan = latest_final_plan
    /\ (turn.outcome = "generated" /\ turn.start.agent_state = "slot_filling") =>
          /\ itinerary_version = 1
          /\ db_itineraries[1].raw_plan = latest_raw_plan

\* The refinement "reduce budget to 20000" was stored as version 2.
C14_Witness ==
    /\ Len(db_itineraries) = 2
    /\ db_itineraries[2].version = 2
    /\ db_itineraries[2].change_request = TxtChange
    /\ db_itineraries[1].change_request = <<>>

(* C15: in a session without provider credentials no user turn is          *)
(* processed: no dialogue transition occurs, no slot answer is accepted, and *)
(* the absence is never met as a failure of a single call that the guardrail *)
(* fallback or the normalizer fallback absorbs.                              *)
C15_NoTurnWithoutCredentials ==
    ~has_api_key =>
        /\ agent_state = "awaiting_first_user_message"
        /\ current_question_idx = 0
        /\ AllSlotsEmpty
        /\ turn.guardrail # "raised"
        /\ turn.normalizer # "raised"

\* The decision names that end a slot-filling turn before normalization.
BlockingDecisions == {Lower(DecGreeting), Lower(DecOfftopic), Lower(DecUnsafe)}

(* C16: in slot_filling a guardrail decision of GREETING, OFFTOPIC or UNSAFE *)
(* (in any letter case) keeps the dialogue state, the question index and all *)
(* slots, issues no normalizer call, and ends the turn's transcript with an  *)
(* assistant message that contains the current question.                     *)
C16_BlockedTurnChangesNothing ==
    [][ ( /\ SlotTurnStep
          /\ turn'.guardrail # "not_run"
          /\ Lower(turn'.decision) \in BlockingDecisions )
        => /\ UNCHANGED <<agent_state, current_question_idx, slots, pc,
                          itinerary_version, db_session, db_slots>>
           /\ turn'.normalizer = "not_run"
           /\ \A i \in 1..Len(calls') : calls'[i] # "normalizer"
           /\ chat_messages'[1] = UserMessage(turn'.input)
           /\ Len(chat_messages') >= 2
           /\ chat_messages'[Len(chat_messages')].role = "assistant"
           /\ Contains(chat_messages'[Len(chat_messages')].content,
                       QUESTIONS[current_question_idx + 1].question) ]_vars

\* The classifier model answered "greeting" in lower case for a date answer:
\* the turn re-asked the start date question.
C16_Witness ==
    /\ turn.guardrail = "model"
    /\ turn.decision = DecGreeting
    /\ turn.outcome = "greeting"
    /\ calls = <<"guardrail">>
    /\ current_question_idx = 2
    /\ slots["start_date"] = <<>>
    /\ Contains(chat_messages[Len(chat_messages)].content, QUESTIONS[3].question)

\* The step is a turn in awaiting_changes that is not a restart.
RefinementTurnStep ==
    /\ pc = "idle"
    /\ agent_state = "awaiting_changes"
    /\ today' = today
    /\ turn'.outcome # "restart"

NoGenerateCall ==
    /\ pc' = "idle"
    /\ calls' = <<>>
    /\ UNCHANGED <<itinerary_version, latest_raw_plan, latest_final_plan,
                   db_itineraries, slots, current_question_idx>>

(* C17: in awaiting_changes an affirmative token moves to completed and a    *)
(* negative token stays in awaiting_changes, both without a generate_plan    *)
(* call and with version and plans unchanged; any other input that is not a  *)
(* restart token starts one generate_plan call with the latest final plan    *)
(* and the input as change request, and a successful call adds exactly 1 to  *)
(* the version and stays in awaiting_changes.                                *)
C17_AwaitingChangesTransitions ==
    [][ /\ RefinementTurnStep =>
            LET token == Lower(Strip(turn'.input))
            IN  /\ token \in AffirmativeTokens =>
                       (agent_state' = "completed" /\ NoGenerateCall)
                /\ token \in NegativeTokens =>
                       (agent_state' = "awaiting_changes" /\ NoGenerateCall)
                /\ token \notin (AffirmativeTokens \cup NegativeTokens) =>
                       /\ pc' = "planner"
                       /\ gen' = [mode |-> "refine",
                                  previous_itinerary |-> latest_final_plan,
                                  change_request |-> turn'.input,
                                  raw_plan |-> NoValue]
                       /\ calls' = <<>>
                       /\ UNCHANGED <<agent_state, itinerary_version, latest_raw_plan,
                                      latest_final_plan, db_itineraries, slots>>
        /\ (turn'.outcome = "generated" /\ turn'.start.agent_state = "awaiting_changes") =>
              /\ agent_state' = "awaiting_changes"
              /\ itinerary_version' = turn'.start.version + 1
              /\ Len(SelectSeq(calls', LAMBDA stage : stage = "planner")) = 1
              /\ Len(SelectSeq(calls', LAMBDA stage : stage = "humanizer")) = 1 ]_vars

\* "no" was answered with the request for specifics: the plan of version 1
\* stands and the dialogue waits for changes.
C17_Witness ==
    /\ turn.outcome = "ask_changes"
    /\ turn.input = TxtNo
    /\ agent_state = "awaiting_changes"
    /\ itinerary_version = 1
    /\ calls = <<>>

\* A change request produced version 2 from the final plan of version 1.
C17_WitnessRefined ==
    /\ turn.outcome = "generated"
    /\ turn.input = TxtChange
    /\ agent_state = "awaiting_changes"
    /\ itinerary_version = 2
    /\ gen.previous_itinerary = db_itineraries[1].final_plan

\* " Yes" completed the session.
C17_WitnessCompleted ==
    /\ turn.outcome = "completed"
    /\ turn.input = TxtYes
    /\ agent_state = "completed"

(* C18: in completed, an input that is not a restart token leaves dialogue  *)
(* state, slots, question index, version and stored plans unchanged, issues  *)
(* no model call, and appends the fixed message that directs the user to     *)
(* restart.                                                                  *)
C18_CompletedIsFinal ==
    [][ ( /\ pc = "idle"
          /\ agent_state = "completed"
          /\ today' = today
          /\ turn'.outcome # "restart" )
        => /\ UNCHANGED <<agent_state, slots, current_question_idx, itinerary_version,
                          latest_raw_plan, latest_final_plan, db_session, db_slots,
                          db_itineraries, pc>>
           /\ calls' = <<>>
           /\ chat_messages' =
                <<UserMessage(turn'.input),
                  AssistantMessage(<<"Session completed. Type restart to begin a new itinerary.">>)>> ]_vars

\* "mumbai" after completion was answered with the fixed message.
C18_Witness ==
    /\ turn.outcome = "session_completed"
    /\ turn.input = TxtMumbai
    /\ turn.start.agent_state = "completed"
    /\ agent_state = "completed"
    /\ itinerary_version >= 1
    /\ calls = <<>>

\* The normalizer replies that are failures: no reply, an empty reply, a
\* reply that is not JSON, JSON that is not an object, an object without
\* normalized_value, and a blank, null or non-string normalized_value.
NormalizerFailures ==
    {GatewayFailure,
     Reply(<<Space>>),
     Reply(<<Prose>>),
     Reply(<<Payload(JsonList)>>),
     Reply(<<Payload([value |-> JStr(TxtTwo)])>>),
     Reply(<<Payload([normalized_value |-> JStr(<<" ">>)])>>),
     Reply(<<Payload([normalized_value |-> JNull])>>),
     Reply(<<Payload([normalized_value |-> JInt(5)])>>)}

\* The classifier replies that let the turn go on to normalization.
AllowingReplies ==
    {GatewayFailure,
     Reply(<<Payload([decision |-> JStr(DecAllow)])>>)}

(* C19: in a slot-filling turn that the guardrail lets through, every        *)
(* failure of the normalizer makes the trimmed user text the value that is   *)
(* validated: the turn ends as invalid, with index and slots unchanged, or   *)
(* stores exactly that text and adds one to the index; it never ends         *)
(* otherwise.                                                                *)
C19_NormalizerFallsBackToRawText ==
    /\ turn.normalizer = "raised" => turn.normalized = Strip(turn.input)
    /\ (pc = "idle" /\ agent_state = "slot_filling"
          /\ current_question_idx < Len(QUESTIONS)) =>
          \A user_text \in UserTexts :
             \A guard_reply \in AllowingReplies :
                \A norm_reply \in NormalizerFailures :
                   LET slot == QUESTIONS[current_question_idx + 1].slot
                       raw  == Strip(user_text)
                       r    == handle_slot_filling(user_text, current_question_idx,
                                                   slots, today, has_api_key,
                                                   guard_reply, norm_reply)
                   IN  r.normalizer # "not_run" =>
                          /\ r.normalized = raw
                          /\ IF validate_slot(slot, raw, slots, today).ok
                             THEN /\ r.outcome \in {"stored", "generate"}
                                  /\ r.slots = [slots EXCEPT ![slot] = raw]
                                  /\ r.idx = current_question_idx + 1
                             ELSE /\ r.outcome = "invalid"
                                  /\ r.slots = slots
                                  /\ r.idx = current_question_idx

\* The normalizer call was issued and failed: "30,000" was validated and
\* stored as typed.
C19_Witness ==
    /\ turn.normalizer = "raised"
    /\ has_api_key
    /\ calls # <<>>
    /\ calls[Len(calls)] = "normalizer"
    /\ turn.input = Txt30k
    /\ turn.outcome = "stored"
    /\ slots["budget"] = Txt30k

HasRequiredKeys(draft) ==
    /\ IsDict(draft)
    /\ {"days", "budget_breakdown"} \subseteq DOMAIN draft

(* C20: every draft generate_plan goes on with or returns, the planner's or  *)
(* the corrected one, is an object with the keys days and budget_breakdown:  *)
(* no correction call and no humanizer call follows a planner draft without  *)
(* them, and no humanizer call or return follows a corrected draft without   *)
(* them.                                                                     *)
C20_DraftHasRequiredKeys ==
    /\ (pc \in {"correction", "humanizer"} \/ LastGenCall = "humanizer") =>
          HasRequiredKeys(gen.raw_plan)
    /\ turn.outcome = "generated" => HasRequiredKeys(latest_raw_plan[1].v)

(***************************************************************************)
(* generate_plan on its own: the call for the initial plan has been        *)
(* entered with all twelve slots filled; raw_plan_text and corrected_text  *)
(* are the replies the planner model gives to the two calls.               *)
(***************************************************************************)
\* The ways a reply can carry a payload: bare, in a labelled block, in an
\* unlabelled block, after another block that does not parse, or not at all.
ReplyShapes(value) ==
    {<<Payload(value)>>,
     <<Space, Payload(value), Space>>,
     <<Prose, FenceJson, Payload(value), Fence>>,
     <<FenceJson, Space, Payload(value), Space, Fence, Prose>>,
     <<Prose, Fence, Payload(value), Fence, Prose>>,
     <<FenceJson, Prose, Fence, Fence, Payload(value), Fence>>,
     <<FenceJson, Prose, Fence, FenceJson, Payload(value), Fence>>,
     <<Fence, Prose, Fence, FenceJson, Payload(value), Fence>>,
     <<Fence, Prose, Fence, Fence, Payload(value), Fence>>,
     <<FenceJson, Payload(value)>>,
     <<Prose, Payload(value)>>,
     <<Payload(value), Prose>>,
     <<FenceJson, Payload(value), Payload(value), Fence>>}

PlannerTexts ==
    UNION {ReplyShapes(value) : value \in {DraftGood, DraftBadSum, DraftNoDays, JsonList}}
    \cup {<<Prose>>, <<FenceJson, Prose, Fence>>}

CorrectedTexts ==
    {<<Payload(DraftGood)>>,
     <<FenceJson, Prose, Fence, Fence, Payload(DraftGood), Fence>>,
     <<Prose, Fence, Payload(DraftBadSum), Fence>>}

FilledSlots ==
    [key \in SlotNames |->
        CASE key = "origin" -> TxtMumbai
          [] key = "destination" -> Strip(TxtGoa)
          [] key = "start_date" -> TxtToday
          [] key = "end_date" -> TxtTomorrow
          [] key = "travel_type" -> TxtSolo
          [] key = "adults" -> TxtTwo
          [] key = "children" -> TxtZero
          [] key = "budget" -> Txt30000
          [] key = "budget_tier" -> TxtMid
          [] key = "interests" -> TxtFood
          [] key = "pace" -> TxtRelaxed
          [] OTHER -> TxtMix]

\* The state in which handle_slot_filling, having stored the twelfth answer,
\* has called generate_plan and the planner's replies are about to arrive.
InitExtract ==
    /\ has_api_key = TRUE
    /\ today = StartDay
    /\ initialized = "True"
    /\ agent_state = "slot_filling"
    /\ onboarding_sent = TRUE
    /\ current_question_idx = Len(QUESTIONS)
    /\ slots = FilledSlots
    /\ chat_messages = <<UserMessage(TxtMix)>>
    /\ latest_raw_plan = <<>>
    /\ latest_final_plan = <<>>
    /\ itinerary_version = 0
    /\ db_session = [state |-> "slot_filling", idx |-> Len(QUESTIONS) - 1]
    /\ db_slots = <<[values |-> FilledSlots, is_complete |-> TRUE]>>
    /\ db_itineraries = <<>>
    /\ pc = "planner"
    /\ \E raw_plan_text \in PlannerTexts :
          \E corrected_text \in CorrectedTexts :
             gen = [mode |-> "initial", previous_itinerary |-> <<>>,
                    change_request |-> <<>>, raw_plan |-> NoValue,
                    raw_plan_text |-> raw_plan_text,
                    corrected_text |-> corrected_text]
    /\ calls = <<"guardrail", "normalizer">>
    /\ turn = [input |-> TxtMix, outcome |-> "generate",
               start |-> [agent_state |-> "slot_filling",
                          idx |-> Len(QUESTIONS) - 1, version |-> 0],
               guardrail |-> "raised", decision |-> DecAllow,
               normalizer |-> "raised", normalized |-> TxtMix]

NextExtract ==
    \/ GenPlanner(Reply(gen.raw_plan_text))
    \/ GenCorrection(Reply(gen.corrected_text))
    \/ \E response \in HumanizerReplies : GenHumanizer(response)

SpecExtract == InitExtract /\ [][NextExtract]_vars

\* The positions of the fences of a text, and its fenced blocks: the n-th
\* block lies between the fences 2n-1 and 2n.
FencePositions(text) == {i \in 1..Len(text) : text[i].t \in {"fence", "fence_json"}}

NthFence(text, n) ==
    CHOOSE i \in FencePositions(text) :
        Cardinality({j \in FencePositions(text) : j <= i}) = n

BlockCount(text) == Cardinality(FencePositions(text)) \div 2

BlockLabelled(text, n) == text[NthFence(text, 2 * n - 1)].t = "fence_json"

BlockInterior(text, n) ==
    SubSeq(text, NthFence(text, 2 * n - 1) + 1, NthFence(text, 2 * n) - 1)

\* The payloads the three attempts of extraction can yield: the whole text,
\* else the labelled blocks, else all blocks.
YieldedPayloads(text) ==
    LET parsed(n)  == JsonLoads(BlockInterior(text, n))
        labelled   == {n \in 1..BlockCount(text) :
                          BlockLabelled(text, n) /\ parsed(n).ok}
        any        == {n \in 1..BlockCount(text) : parsed(n).ok}
    IN  IF JsonLoads(text).ok THEN {JsonLoads(text).v}
        ELSE IF labelled # {} THEN {parsed(n).v : n \in labelled}
        ELSE {parsed(n).v : n \in any}

(* C21: _extract_json returns the parsed payload whenever the whole text     *)
(* parses, or else a labelled fenced block has an interior that parses, or   *)
(* else any fenced block has an interior that parses; it raises only when    *)
(* none of the three attempts yields a payload.  Stated on the planner reply *)
(* of a generate_plan call: when an attempt yields a payload, extraction     *)
(* returns one of the yielded payloads, and a yielded consistent draft takes *)
(* the call on to the humanizer.                                             *)
C21_ExtractTriesEveryAttempt ==
    LastGenCall # "none" =>
        LET text == StripText(gen.raw_plan_text)
        IN  YieldedPayloads(text) # {} =>
               /\ _extract_json(text).ok
               /\ _extract_json(text).v \in YieldedPayloads(text)
               /\ (YieldedPayloads(text) = {DraftGood} /\ LastGenCall = "planner") =>
                      (pc = "humanizer" /\ gen.raw_plan = DraftGood)

(* C22: in every reachable state whose dialogue state is slot_filling the   *)
(* question index lies in 0..11, so QUESTIONS[idx] is defined whenever a     *)
(* slot-filling input is handled, also after turns whose plan generation     *)
(* failed.  Stated between turns (pc = "idle"), when the next input is taken. *)
C22_QuestionIndexInRange ==
    (agent_state = "slot_filling" /\ pc = "idle") =>
        current_question_idx \in 0..(Len(QUESTIONS) - 1)

(* C23: every budget answer that validation accepts and stores is read by    *)
(* generate_plan as the same integer: int(slots["budget"]) succeeds and      *)
(* equals _parse_int of the stored text, so no generation fails while        *)
(* parsing the budget.                                                       *)
C23_StoredBudgetReadAsSameInteger ==
    /\ (slots["budget"] # <<>>) =>
          /\ _parse_int(slots["budget"]).ok
          /\ IntOfStr(slots["budget"]).ok
          /\ IntOfStr(slots["budget"]).v = _parse_int(slots["budget"]).v
    /\ (turn.outcome = "generation_failed" /\ LastGenCall = "planner") =>
          IntOfStr(slots["budget"]).ok

(***************************************************************************)
(* A session with credentials whose generation calls succeed: the planner  *)
(* answers with a draft, the correction call with a consistent draft and   *)
(* the humanizer with text.  Every handler runs to its end, the user sends *)
(* a first input and keeps answering until an answer is accepted.          *)
(***************************************************************************)
SucceedingPlanReplies == {Reply(<<Payload(DraftGood)>>), Reply(<<Payload(DraftBadSum)>>)}

SucceedingCorrectionReplies ==
    {Reply(<<Payload(DraftGood)>>),
     Reply(<<Prose, FenceJson, Space, Payload(DraftGood), Space, Fence, Prose>>)}

SucceedingHumanizerReplies == HumanizerReplies \ {GatewayFailure, Reply(<<Space>>)}

InitLive == Init /\ has_api_key

FirstInput == \E user_input \in UserTexts : Onboarding(user_input)

SlotFillingTurn ==
    \E user_input \in UserTexts :
       \E guard_reply \in GuardrailRepliesFor(user_input) :
          \E norm_reply \in NormalizerRepliesFor(user_input, guard_reply) :
             SlotFilling(user_input, guard_reply, norm_reply)

\* A question is open: handle_slot_filling can take an answer to it.
QuestionOpen ==
    pc = "idle" /\ agent_state = "slot_filling"
    /\ current_question_idx < Len(QUESTIONS)

\* A slot-filling turn whose answer is accepted: the index moves on.
AcceptedAnswer == QuestionOpen /\ current_question_idx' = current_question_idx + 1

PlannerCall == \E response \in SucceedingPlanReplies : GenPlanner(response)

CorrectionCall == \E response \in SucceedingCorrectionReplies : GenCorrection(response)

HumanizerCall == \E response \in SucceedingHumanizerReplies : GenHumanizer(response)

NextLive ==
    \/ \E user_input \in RestartTexts : Restart(user_input)
    \/ FirstInput
    \/ SlotFillingTurn
    \/ \E user_input \in UserTexts : Refinement(user_input)
    \/ \E user_input \in UserTexts : Completed(user_input)
    \/ PlannerCall
    \/ CorrectionCall
    \/ HumanizerCall
    \/ DayPasses

\* Fairness, each condition weak fairness of a step with its enabling
\* condition written out as the state predicate it equals:
\*   - the user sends a first input;
\*   - the user keeps answering an open question until an answer is accepted;
\*   - generate_plan is a synchronous call, so the planner call and the
\*     correction call return, and so does the humanizer call.
SpecLive ==
    /\ InitLive
    /\ [][NextLive]_vars
    /\ \/ []<>(agent_state # "awaiting_first_user_message")
       \/ []<><<agent_state = "awaiting_first_user_message"
                /\ agent_state' = "slot_filling">>_vars
    /\ \/ []<>(~QuestionOpen)
       \/ []<><<AcceptedAnswer>>_vars
    /\ \/ []<>(pc # "planner")
       \/ []<><<pc = "planner" /\ pc' # "planner">>_vars
    /\ \/ []<>(pc # "correction")
       \/ []<><<pc = "correction" /\ pc' # "correction">>_vars
    /\ WF_vars(HumanizerCall)

\* What holds when the session is in awaiting_changes.
ArrivedProperly ==
    /\ onboarding_sent
    /\ current_question_idx = Len(QUESTIONS)
    /\ AllSlotsFilled
    /\ itinerary_version >= 1

(* C24: from a fresh session, when the user eventually gives an accepted     *)
(* answer at each question and the model calls of generation succeed with    *)
(* invariant-satisfying output, the session eventually reaches                *)
(* awaiting_changes; and it is in awaiting_changes only with the onboarding  *)
(* sent, question index 12, all slots filled and a plan version of at least  *)
(* 1 (exactly 1 on arrival).                                                 *)
C24_EventuallyAwaitingChanges ==
    /\ <>(agent_state = "awaiting_changes")
    /\ [](agent_state = "awaiting_changes" => ArrivedProperly)
    /\ []((pc = "idle" /\ turn.start.agent_state = "slot_filling"
           /\ agent_state = "awaiting_changes") => itinerary_version = 1)

====
